---- MODULE Spec2Model ----
(***************************************************************************)
(* A model of the auction mechanism engine of mrplan_auctioneer            *)
(* (auctioneer.py): the bid ledger and its handler, the per-round Auction  *)
(* state machine and its eight mechanisms, and the allocation loop of      *)
(* Auctioneer.choose_mechanism.                                            *)
(*                                                                         *)
(* Reading conventions.  The source is half way through a renaming of      *)
(* "task" to "item": the Auction base class stores self.items while the    *)
(* mechanisms read self.tasks, and the task fields num_robots /            *)
(* num_robots_allocated are used by the mechanisms.  The model reads the   *)
(* two vocabularies as one (tasks = items, task_id = item_id) and treats   *)
(* ROS transport (publishers, subscriptions, message classes) as working   *)
(* plumbing.  Everything that decides the control flow or the data (the    *)
(* Fysom event tables, the dictionaries, the loops, the exceptions raised  *)
(* by missing keys, empty lists and unset attributes) is modelled as       *)
(* written.                                                                *)
(***************************************************************************)
EXTENDS Integers, Sequences, FiniteSets, TLC

(***************************************************************************)
(* Bounds of the model.                                                    *)
(***************************************************************************)
MaxNeed == 2     \* num_robots of a task ranges over 1..MaxNeed
MaxCost == 2     \* bid values range over 1..MaxCost
MaxRound == 3    \* the allocation loop opens at most MaxRound rounds

(***************************************************************************)
(* The team and the scripted items of a scenario.                          *)
(***************************************************************************)
\* Auctioneer.team_members as identify_team leaves it
team_members == <<"robot_1">>
Team == {team_members[i] : i \in 1..Len(team_members)}

\* The robot controllers that publish on the bid and status topics; the
\* handlers accept a message whatever its robot_id.
Robots == {"robot_1", "robot_2"}
Tasks == {"A", "B", "C"}
Costs == 1..MaxCost
Needs == 1..MaxNeed

\* The characters of a robot id: list.extend(<string>) appends these.
IdChars(r) == <<"r", "o", "b", "o", "t", "_">> \o (IF r = "robot_1" THEN <<"1">> ELSE <<"2">>)

Mechanisms == {"RR", "OSI", "PSI", "SSI", "SUM", "MAX", "MAN"}

\* The values of the ~mechanism parameter: the names the loop knows, SEL,
\* and OTHER standing for any other string.
ConfiguredMechanisms == {"RR", "OSI", "PSI", "SSI", "SUM", "MAX", "SEL", "OTHER"}

VARIABLES
    mechanism,              \* Auctioneer.mechanism
    reallocate,             \* Auctioneer.reallocate
    classifier,             \* TRUE iff a classifier and feature names are set
    scripted_items,         \* Auctioneer.scripted_items (ids, scenario order)
    items,                  \* Auctioneer.items (ids, insertion order)
    num_robots,             \* task.num_robots           (need)
    num_robots_allocated,   \* task.num_robots_allocated (have)
    item_awarded,           \* item.awarded
    item_completed,         \* item.completed
    awarded,                \* Auctioneer.awarded: task id -> list of winners
    auction_round,          \* Auctioneer.auction_round
    bids,                   \* Auctioneer.bids: round -> ledger
    closed_kept,            \* TRUE iff bids carries the ledgers of closed rounds
    ppsi_task_winners,      \* Auctioneer.ppsi_task_winners
    team_cycle,             \* position of Auctioneer._team_cycle
    agenda_cleared,         \* Auctioneer.agenda_cleared
    new_item_added,         \* Auctioneer.new_item_added
    announced,              \* the latest announcement published (announce_pub)
    award_pub,              \* the awards published by the latest Award phase
    won,                    \* history: per task, the robots of all awards published
    auction,                \* the Auction instance being run
    pc,                     \* position of the control thread
    bids_lock,              \* Auctioneer.bids_lock: the thread that holds it
    handler,                \* position and message of on_bid_received
    poll                    \* position of the polling loop of collect_bids

vars == <<mechanism, reallocate, classifier, scripted_items, closed_kept, items,
          num_robots, num_robots_allocated, item_awarded, item_completed,
          awarded, auction_round, bids, ppsi_task_winners, team_cycle,
          agenda_cleared, new_item_added, announced, award_pub, won, auction, pc,
          bids_lock, handler, poll>>

pubVars == <<announced, award_pub, won>>
taskVars == <<num_robots, num_robots_allocated, item_awarded, item_completed>>
configVars == <<reallocate, classifier, scripted_items, closed_kept>>
threadVars == <<bids_lock, handler, poll>>

(***************************************************************************)
(* Sequences.                                                              *)
(***************************************************************************)
Range(s) == {s[i] : i \in 1..Len(s)}

Take(s, n) == SubSeq(s, 1, IF n < Len(s) THEN n ELSE Len(s))

Min(a, b) == IF a < b THEN a ELSE b

\* All orders in which the elements of a finite set S can be listed.
Perms(S) == {p \in [1..Cardinality(S) -> S] : \A x \in S : \E i \in DOMAIN p : p[i] = x}

\* The subsequences of length k of s, as itertools.combinations lists them.
RECURSIVE Combinations(_, _)
Combinations(s, k) ==
    IF k = 0 THEN {<<>>}
    ELSE IF Len(s) < k THEN {}
    ELSE {<<Head(s)>> \o c : c \in Combinations(Tail(s), k - 1)}
         \cup Combinations(Tail(s), k)

\* The non-empty subsets of a bundle, each as a tuple in bundle order.
NonEmptySubTuples(s) == UNION {Combinations(s, k) : k \in 1..Len(s)}

(***************************************************************************)
(* The bid ledger of one round: bids[round][robot_id][tuple(task_ids)].    *)
(* A ledger is a set of entries with at most one entry per                 *)
(* (robot, task_ids) key.                                                  *)
(***************************************************************************)
NoLedger == {}

Entry(r, tt, c) == [robot |-> r, task_ids |-> tt, bid |-> c]

\* RecordBid adding the bid to the value already stored under the key
RecordBid_accumulate(ledger, r, tt, c) ==
    LET old == {b \in ledger : b.robot = r /\ b.task_ids = tt}
        sum == IF old = {} THEN c ELSE (CHOOSE b \in old : TRUE).bid + c
    IN  (ledger \ old) \cup {[robot |-> r, task_ids |-> tt, bid |-> sum]}

\* RecordBid keeping the entry already stored under the key
RecordBid_keep_old(ledger, r, tt, c) ==
    ledger \cup {[robot |-> r, task_ids |-> tt, bid |-> c]}

\* round_bids[robot_id][tuple(task_ids)] = float(bid)
RecordBid(ledger, r, tt, c) ==
    {b \in ledger : ~(b.robot = r /\ b.task_ids = tt)} \cup {Entry(r, tt, c)}

\* bids.keys(): the robots that have an entry in the ledger
BidderIds(ledger) == {b.robot : b \in ledger}

HasBid(ledger, r, tt) == \E b \in ledger : b.robot = r /\ b.task_ids = tt

BidValue(ledger, r, tt) == (CHOOSE b \in ledger : b.robot = r /\ b.task_ids = tt).bid

\* the count of (robot, task_ids) entries made by the collect_bids loops
BidCount(ledger) == Cardinality(ledger)

(***************************************************************************)
(* Auction instances.                                                      *)
(***************************************************************************)
NoAuction ==
    [mechanism_name |-> "none", tasks |-> <<>>, auction_round |-> 0,
     fsm |-> "none", phases |-> <<>>,
     task_id |-> "none", winner_ids |-> <<>>,
     task_winners |-> <<>>, min_cost_partition |-> {}]

\* the event table of Auction.__init__ with bids_collected leading to award
AuctionEvents_skip ==
    {[name |-> "startup",           src |-> "none",             dst |-> "announce"],
     [name |-> "announced",         src |-> "announce",         dst |-> "collect_bids"],
     [name |-> "bids_collected",    src |-> "collect_bids",     dst |-> "award"],
     [name |-> "winner_determined", src |-> "determine_winner", dst |-> "award"]}

\* The Fysom event tables: Auction.__init__ and, without winner_determined,
\* AuctionPPSI.__init__.
AuctionEvents ==
    {[name |-> "startup",           src |-> "none",             dst |-> "announce"],
     [name |-> "announced",         src |-> "announce",         dst |-> "collect_bids"],
     [name |-> "bids_collected",    src |-> "collect_bids",     dst |-> "determine_winner"],
     [name |-> "winner_determined", src |-> "determine_winner", dst |-> "award"]}

PPSIEvents == {ev \in AuctionEvents : ev.name # "winner_determined"}

Events(a) == IF a.mechanism_name = "PPSI" THEN PPSIEvents ELSE AuctionEvents

\* Fysom.can(event)
CanFire(a, event) == \E ev \in Events(a) : ev.name = event /\ ev.src = a.fsm

\* a Fysom event: the instance enters the destination state of the event
Fire(a, event) ==
    LET ev == CHOOSE ev \in Events(a) : ev.name = event /\ ev.src = a.fsm
    IN  [a EXCEPT !.fsm = ev.dst, !.phases = Append(a.phases, ev.dst)]

\* The constructor of an Auction: the fields are set, the machine is built
\* in state none and startup is fired.
NewAuction(name, tasks, round) ==
    Fire([NoAuction EXCEPT !.mechanism_name = name, !.tasks = tasks,
                           !.auction_round = round, !.fsm = "none",
                           !.phases = <<"none">>], "startup")

\* Auctioneer.ppsi_task_winners is not assigned before the first PPSI run
NoWinners == [assigned |-> FALSE, task_winners |-> <<>>]

NoAnnouncement == [mechanism |-> "none", tasks |-> <<>>]

\* on_bid_received is not running
NoMessage == [pc |-> "idle", robot |-> "none", task_ids |-> <<>>, bid |-> 0]

\* no collect_bids loop is counting
NoPoll == [pc |-> "idle", bidders |-> {}, keys |-> {}]

\* The keys a bidder submits in answer to an announcement.
BidKeys(ann) ==
    IF ann.mechanism \in {"OSI", "PSI", "PPSI", "SSI"}
    THEN {<<ann.tasks[i]>> : i \in 1..Len(ann.tasks)}
    ELSE IF ann.mechanism \in {"SUM", "MAX"} THEN NonEmptySubTuples(ann.tasks)
    ELSE {}

(***************************************************************************)
(* The initial state: the Auctioneer has been constructed, the scenario    *)
(* is loaded, the team is identified and the machine idles.                *)
(***************************************************************************)
Scenario(m) == IF m = "SEL" THEN <<"A", "B", "C">> ELSE <<"A", "B">>

\* The bid values of a scenario: the single-item auctions of the two-item
\* scenario receive bids over Costs, the combinatorial auctions and the
\* three-item scenario unit bids.
ScenarioCosts ==
    IF mechanism \in {"OSI", "PSI", "SSI"} /\ Len(scripted_items) = 2 THEN Costs ELSE {1}

Setup ==
    /\ mechanism \in ConfiguredMechanisms
    /\ reallocate \in BOOLEAN
    /\ classifier \in BOOLEAN
    /\ classifier => mechanism = "SEL"
    /\ reallocate => mechanism \in {"RR", "OSI", "PSI"}
    /\ scripted_items = Scenario(mechanism)
    /\ items = <<>>
    /\ num_robots \in [Tasks -> Needs]
    /\ \A t \in Tasks \ Range(scripted_items) : num_robots[t] = 1
    /\ mechanism = "SEL" => \A t \in Tasks : num_robots[t] = 1
    /\ num_robots_allocated = [t \in Tasks |-> 0]
    /\ item_awarded = [t \in Tasks |-> FALSE]
    /\ item_completed = [t \in Tasks |-> FALSE]
    /\ awarded = [t \in Tasks |-> <<>>]
    /\ auction_round = 0
    /\ bids = <<>>
    /\ ppsi_task_winners = NoWinners
    /\ team_cycle = 1
    /\ agenda_cleared = {}
    /\ new_item_added = FALSE
    /\ announced = NoAnnouncement
    /\ award_pub = <<>>
    /\ won = [t \in Tasks |-> <<>>]
    /\ auction = NoAuction
    /\ pc = "idle"
    /\ bids_lock = "free"
    /\ handler = NoMessage
    /\ poll = NoPoll

Init == Setup /\ closed_kept = FALSE

(***************************************************************************)
(* The environment: scripted items arrive, robots report status, bidders   *)
(* answer the latest announcement.                                         *)
(***************************************************************************)
\* the items with awarded == False, in insertion order
\* the unallocated items taken as the items that are not completed
Unallocated_incomplete == SelectSeq(items, LAMBDA t : ~item_completed[t])

Unallocated == SelectSeq(items, LAMBDA t : ~item_awarded[t])

\* Auctioneer.add_scripted_item, run by the arrival timer of the next item.
\* A running auction reads neither items nor new_item_added, so an arrival
\* during an auction is taken when the auction has returned.
add_scripted_item ==
    /\ pc \notin {"crashed", "diverged", "auction", "ppsi", "selected"}
    /\ Len(items) < Len(scripted_items)
    /\ items' = Append(items, scripted_items[Len(items) + 1])
    /\ new_item_added' = TRUE
    /\ UNCHANGED <<mechanism, configVars, threadVars, taskVars, awarded, auction_round, bids,
                   ppsi_task_winners, team_cycle, agenda_cleared, pubVars,
                   auction, pc>>

\* Auctioneer.on_task_status, status AGENDA_CLEARED
on_task_status_agenda_cleared(r) ==
    /\ reallocate
    /\ pc \in {"idle", "choose_mechanism"}
    /\ r \notin agenda_cleared
    /\ agenda_cleared' = agenda_cleared \cup {r}
    /\ UNCHANGED <<mechanism, configVars, threadVars, items, taskVars, awarded, auction_round,
                   bids, ppsi_task_winners, team_cycle, new_item_added,
                   pubVars, auction, pc>>

\* Auctioneer.on_task_status, status SUCCESS: robots execute (and complete)
\* tasks once the execution phase has begun
on_task_status_success(t) ==
    /\ pc = "monitor_execution"
    /\ t \in Range(items)
    /\ ~item_completed[t]
    /\ item_completed' = [item_completed EXCEPT ![t] = TRUE]
    /\ UNCHANGED <<mechanism, configVars, threadVars, items, num_robots, num_robots_allocated,
                   item_awarded, awarded, auction_round, bids, ppsi_task_winners,
                   team_cycle, agenda_cleared, new_item_added, pubVars,
                   auction, pc>>

\* Bids reach the handler while an instance waits in collect_bids, or, for
\* the previous announcement, after the loop has opened the next round and
\* before that round is announced.  (A bid that arrives later in a round
\* overwrites or adds a key that the round no longer reads, or that it reads
\* exactly as if the bid had arrived during collect_bids.)
BidWindow ==
    /\ pc \in {"auction", "ppsi"}
    /\ auction.fsm \in {"announce", "collect_bids"}

\* on_bid_received storing under the key of the first round
on_bid_received_first_round(r, tt, c) ==
    /\ BidWindow
    /\ auction_round >= 1
    /\ tt \in BidKeys(announced)
    /\ bids' = [bids EXCEPT ![1] = RecordBid(@, r, tt, c)]
    /\ UNCHANGED <<mechanism, configVars, threadVars, items, taskVars, awarded, auction_round,
                   ppsi_task_winners, team_cycle, agenda_cleared, new_item_added,
                   pubVars, auction, pc>>

\* Auctioneer.on_bid_received: the whole handler runs under bids_lock
on_bid_received(r, tt, c) ==
    /\ BidWindow
    /\ auction_round >= 1
    /\ tt \in BidKeys(announced)
    /\ bids' = [bids EXCEPT ![auction_round] = RecordBid(@, r, tt, c)]
    /\ UNCHANGED <<mechanism, configVars, threadVars, items, taskVars, awarded, auction_round,
                   ppsi_task_winners, team_cycle, agenda_cleared, new_item_added,
                   pubVars, auction, pc>>

(***************************************************************************)
(* The top-level machine of the Auctioneer.                                *)
(***************************************************************************)
\* Auctioneer.idle: waits for an item, then for an unallocated item or for
\* every scripted item to be complete
idle ==
    /\ pc = "idle"
    /\ items # <<>>
    /\ \/ Unallocated # <<>>
       \/ \A t \in Range(scripted_items) : item_completed[t]
    /\ pc' = IF Unallocated # <<>> THEN "choose_mechanism" ELSE "end_experiment"
    /\ UNCHANGED <<mechanism, configVars, threadVars, items, taskVars, awarded, auction_round,
                   bids, ppsi_task_winners, team_cycle, agenda_cleared,
                   new_item_added, pubVars, auction>>

\* choose_mechanism up to its loop resetting awarded of every item, complete
\* or not
choose_mechanism_begin_reset_all ==
    /\ pc = "choose_mechanism"
    /\ reallocate => \A r \in Team : r \in agenda_cleared
    /\ agenda_cleared' = IF reallocate THEN agenda_cleared \ Team ELSE agenda_cleared
    /\ item_awarded' =
          IF reallocate
          THEN [t \in Tasks |-> IF t \in Range(items) THEN FALSE ELSE item_awarded[t]]
          ELSE item_awarded
    /\ pc' = "loop"
    /\ UNCHANGED <<mechanism, configVars, threadVars, items, num_robots, num_robots_allocated,
                   item_completed, awarded, auction_round, bids, ppsi_task_winners,
                   team_cycle, new_item_added, pubVars, auction>>

\* Auctioneer.choose_mechanism up to its while loop: with reallocation, wait
\* for AGENDA_CLEARED of every team member, reset the flags, and reset
\* awarded of every incomplete item
choose_mechanism_begin ==
    /\ pc = "choose_mechanism"
    /\ reallocate => \A r \in Team : r \in agenda_cleared
    /\ agenda_cleared' = IF reallocate THEN agenda_cleared \ Team ELSE agenda_cleared
    /\ item_awarded' =
          IF reallocate
          THEN [t \in Tasks |-> IF t \in Range(items) /\ ~item_completed[t]
                                 THEN FALSE ELSE item_awarded[t]]
          ELSE item_awarded
    /\ pc' = "loop"
    /\ UNCHANGED <<mechanism, configVars, threadVars, items, num_robots, num_robots_allocated,
                   item_completed, awarded, auction_round, bids, ppsi_task_winners,
                   team_cycle, new_item_added, pubVars, auction>>

(***************************************************************************)
(* The allocation loop: the while loop of Auctioneer.choose_mechanism.     *)
(***************************************************************************)
\* The ledgers once the auction of the open round has returned.  No handler
\* and no auction reads the ledger of a round after that; a behaviour with
\* closed_kept = FALSE blanks the closed ledgers, which leaves everything
\* else as it is.
ClosedLedgers == IF closed_kept THEN bids ELSE [i \in DOMAIN bids |-> NoLedger]

\* the names for which the loop constructs an auction
Recognized == {"OSI", "PSI", "SSI", "RR", "SUM", "MAX", "MAN"}

\* what the classifier of select_mechanism_dynamic may predict: it chooses
\* between SSI and PSI
ClassifierOutputs == {"PSI", "SSI"}

\* the bundle size up to which select_mechanism_dynamic returns at once
SmallBundle == 2

\* one pass of the loop from its top to the construction of the auction.
\* Under SEL select_mechanism_dynamic returns "PSI" early for a small
\* bundle or a missing classifier (and the loop then finishes with MAN),
\* or runs PPSI first.
loop_iteration ==
    /\ pc = "loop"
    /\ IF Unallocated = <<>>
       THEN /\ pc' = "allocation_done"
            /\ UNCHANGED <<auction_round, bids, auction>>
       ELSE /\ auction_round < MaxRound
            /\ auction_round' = auction_round + 1
            /\ bids' = Append(ClosedLedgers, NoLedger)
            /\ IF mechanism = "SEL"
               THEN IF Len(Unallocated) <= SmallBundle \/ ~classifier
                    THEN IF ppsi_task_winners.assigned
                         THEN /\ auction' = [NewAuction("MAN", Unallocated, auction_round')
                                               EXCEPT !.task_winners = ppsi_task_winners.task_winners]
                              /\ pc' = "auction"
                         ELSE /\ auction' = auction
                              /\ pc' = "crashed"
                    ELSE /\ auction' = NewAuction("PPSI", Unallocated, auction_round')
                         /\ pc' = "ppsi"
               ELSE IF mechanism = "MAN"
                    THEN /\ auction' = [NewAuction("MAN", Unallocated, auction_round')
                                          EXCEPT !.task_winners = ppsi_task_winners.task_winners]
                         /\ pc' = "auction"
                    ELSE IF mechanism \in Recognized
                         THEN /\ auction' = NewAuction(mechanism, Unallocated, auction_round')
                              /\ pc' = "auction"
                         ELSE /\ auction' = auction
                              /\ pc' = "loop"
    /\ UNCHANGED <<mechanism, configVars, threadVars, items, taskVars, awarded,
                   ppsi_task_winners, team_cycle, agenda_cleared, new_item_added,
                   pubVars>>

\* the end of select_mechanism_dynamic after its PPSI run: the PSI spread is
\* computed from ppsi_task_winners, the classifier predicts a mechanism and
\* the loop constructs it, MAN standing in for PSI
select_mechanism_dynamic_end(predicted) ==
    /\ pc = "selected"
    /\ LET tw == ppsi_task_winners.task_winners
           name == IF predicted = "PSI" THEN "MAN" ELSE predicted
       IN  IF (DOMAIN tw # {}) /\ (\A t \in DOMAIN tw : tw[t] = <<>>)
           THEN /\ auction' = auction        \* max() of an empty list
                /\ pc' = "crashed"
           ELSE /\ auction' = [NewAuction(name, auction.tasks, auction_round)
                                 EXCEPT !.task_winners = IF name = "MAN" THEN tw ELSE <<>>]
                /\ pc' = "auction"
    /\ UNCHANGED <<mechanism, configVars, threadVars, items, taskVars, awarded, auction_round,
                   bids, ppsi_task_winners, team_cycle, agenda_cleared,
                   new_item_added, pubVars>>

\* the end of choose_mechanism, after the loop
allocation_complete ==
    /\ pc = "allocation_done"
    /\ new_item_added' = FALSE
    /\ pc' = "monitor_execution"
    /\ UNCHANGED <<mechanism, configVars, threadVars, items, taskVars, awarded, auction_round,
                   bids, ppsi_task_winners, team_cycle, agenda_cleared,
                   pubVars, auction>>

\* Auctioneer.monitor_execution: leaves once every item is complete or a
\* new item has been added
monitor_execution ==
    /\ pc = "monitor_execution"
    /\ \/ new_item_added
       \/ \A t \in Range(items) : item_completed[t]
    /\ pc' = "end_execution"
    /\ UNCHANGED <<mechanism, configVars, threadVars, items, taskVars, awarded, auction_round,
                   bids, ppsi_task_winners, team_cycle, agenda_cleared,
                   new_item_added, pubVars, auction>>

\* Auctioneer.end_execution: fires have_items, an event defined from idle
\* only, when a scripted item is incomplete
end_execution ==
    /\ pc = "end_execution"
    /\ pc' = IF \E t \in Range(scripted_items) : ~item_completed[t]
             THEN "crashed" ELSE "end_experiment"
    /\ UNCHANGED <<mechanism, configVars, threadVars, items, taskVars, awarded, auction_round,
                   bids, ppsi_task_winners, team_cycle, agenda_cleared,
                   new_item_added, pubVars, auction>>

(***************************************************************************)
(* Winner determination.                                                   *)
(***************************************************************************)
\* sorted(bid_tuples, key = bid value): stable, ascending
RECURSIVE InsertByBid(_, _)
InsertByBid(e, s) ==
    IF s = <<>> THEN <<e>>
    ELSE IF Head(s).bid <= e.bid THEN <<Head(s)>> \o InsertByBid(e, Tail(s))
    ELSE <<e>> \o s

RECURSIVE SortedByBid(_)
SortedByBid(s) ==
    IF s = <<>> THEN <<>>
    ELSE InsertByBid(s[Len(s)], SortedByBid(SubSeq(s, 1, Len(s) - 1)))

\* the robot ids of a list of bid tuples
RECURSIVE RobotIds(_)
RobotIds(s) == IF s = <<>> THEN <<>> ELSE <<Head(s).robot>> \o RobotIds(Tail(s))

\* robot_id not in self.auctioneer.awarded[task_id]
Eligible(r, t) == r \notin Range(awarded[t])

\* The bid tuples of OSI and PSI for one task: the robots of the ledger, in
\* the iteration order of bids.keys(), that are not yet winners of the task.
\* keyError is the OSI lookup of a key the robot has not bid on; PSI skips
\* such a robot.
RECURSIVE BidTuples(_, _, _)
BidTuples(ledger, order, t) ==
    IF order = <<>> THEN <<>>
    ELSE IF Eligible(Head(order), t) /\ HasBid(ledger, Head(order), <<t>>)
         THEN <<Entry(Head(order), <<t>>, BidValue(ledger, Head(order), <<t>>))>>
              \o BidTuples(ledger, Tail(order), t)
         ELSE BidTuples(ledger, Tail(order), t)

OSIKeyError(ledger, t) ==
    \E r \in BidderIds(ledger) : Eligible(r, t) /\ ~HasBid(ledger, r, <<t>>)

\* the num_robots lowest bidders: bid_tuples[:num_robots]
LowestBidders(ledger, order, t) ==
    RobotIds(Take(SortedByBid(BidTuples(ledger, order, t)), num_robots[t]))

\* task_winners computed for every task from the bids on the first task of
\* the bundle
PSITaskWinners_first_task(ledger, order, tasks) ==
    [t \in Range(tasks) |-> LowestBidders(ledger, order, tasks[1])]

\* AuctionPSI.determine_winner and AuctionPPSI.determine_winner: task_winners
PSITaskWinners(ledger, order, tasks) ==
    [t \in Range(tasks) |-> LowestBidders(ledger, order, t)]

\* AuctionSSI.determine_winner: the bid tuples of every robot and key of the
\* ledger whose robot is not yet a winner of the (first) task of the key
SSIBidTuples(ledger) == {b \in ledger : Eligible(b.robot, b.task_ids[1])}

\* bid_tuples[0] after the sort: a tuple of lowest bid, the first of them
\* in the iteration order of the dictionaries
SSILowest(ledger) ==
    {b \in SSIBidTuples(ledger) : \A o \in SSIBidTuples(ledger) : b.bid <= o.bid}

(***************************************************************************)
(* The combinatorial mechanisms.                                           *)
(***************************************************************************)
MaxInt == 1000000    \* stands for float(sys.maxint), the bid of a missing key

\* every set-partition of a set of task ids, as a set of blocks
RECURSIVE SetPartitions(_)
SetPartitions(S) ==
    IF S = {} THEN {{}}
    ELSE LET x == CHOOSE x \in S : TRUE
         IN  UNION {{P \cup {{x}}} \cup {(P \ {B}) \cup {B \cup {x}} : B \in P}
                    : P \in SetPartitions(S \ {x})}

\* a block as the tuple of its task ids in bundle order
BlockTuple(tasks, B) == SelectSeq(tasks, LAMBDA t : t \in B)

\* partition.Partition(OrderedSet(task ids)): an iteration that yields every
\* set-partition of the bundle once, each as a list of blocks.  The order of
\* the partitions and of the blocks within a partition is the library's.
PartitionLists(tasks) ==
    LET SP == SetPartitions(Range(tasks))
        BlockLists(P) == {[i \in 1..Cardinality(P) |-> BlockTuple(tasks, bo[i])] : bo \in Perms(P)}
    IN  {e \in [1..Cardinality(SP) -> UNION {BlockLists(P) : P \in SP}] :
            \A P \in SP : \E i \in DOMAIN e : Range(e[i]) = {BlockTuple(tasks, B) : B \in P}}

\* the bid of a missing key read as 0
BidOrMax_zero(ledger, r, tt) == IF HasBid(ledger, r, tt) THEN BidValue(ledger, r, tt) ELSE 0

\* bids[robot_id].get(tasks, float(sys.maxint))
BidOrMax(ledger, r, tt) == IF HasBid(ledger, r, tt) THEN BidValue(ledger, r, tt) ELSE MaxInt

\* AuctionSUM._min_bid_for_round and AuctionMAX._min_bid_for_round: the first
\* robot, in the iteration order of bids.keys(), whose bid plus accumulated
\* cost is lowest
MinBidForRound(ledger, order, tt, robot_cost) ==
    LET total(i) == BidOrMax(ledger, order[i], tt) + robot_cost[order[i]]
        i == CHOOSE i \in 1..Len(order) :
                 /\ \A j \in 1..Len(order) : total(i) <= total(j)
                 /\ \A j \in 1..(i - 1) : total(j) > total(i)
    IN  [min_bid |-> total(i), min_robot_id |-> order[i]]

\* the loop over the blocks of one partition: mincost_dict and robot_cost
RECURSIVE EvalPartition(_, _, _, _)
EvalPartition(ledger, order, blocks, robot_cost) ==
    IF blocks = <<>> THEN [mincost_dict |-> {}, robot_cost |-> robot_cost]
    ELSE LET m == MinBidForRound(ledger, order, Head(blocks), robot_cost)
             rest == EvalPartition(ledger, order, Tail(blocks),
                                   [robot_cost EXCEPT ![m.min_robot_id] = @ + m.min_bid])
         IN  [mincost_dict |-> {Entry(m.min_robot_id, Head(blocks), m.min_bid)}
                                \cup rest.mincost_dict,
              robot_cost |-> rest.robot_cost]

RECURSIVE SumOfBids(_)
SumOfBids(D) ==
    IF D = {} THEN 0
    ELSE LET e == CHOOSE e \in D : TRUE IN e.bid + SumOfBids(D \ {e})

\* partition_cost of SUM: sum(v[0] for v in mincost_dict.values())
SUMPartitionCost(ev, order) == SumOfBids(ev.mincost_dict)

\* partition_cost of MAX: max(robot_cost.values())
MAXPartitionCost(ev, order) ==
    CHOOSE c \in {ev.robot_cost[order[i]] : i \in 1..Len(order)} :
        \A i \in 1..Len(order) : ev.robot_cost[order[i]] <= c

PartitionCost(name, ev, order) ==
    IF name = "MAX" THEN MAXPartitionCost(ev, order) ELSE SUMPartitionCost(ev, order)

\* the loop over the partitions keeping the first partition it evaluates
MinCostPartition_first(name, ledger, order, enumeration) ==
    EvalPartition(ledger, order, enumeration[1], [r \in Robots |-> 0]).mincost_dict

\* the loop over the partitions: the first partition of the enumeration whose
\* cost is strictly below that of every earlier one
MinCostPartition(name, ledger, order, enumeration) ==
    LET Eval(i) == EvalPartition(ledger, order, enumeration[i], [r \in Robots |-> 0])
        cost(i) == PartitionCost(name, Eval(i), order)
        i == CHOOSE i \in 1..Len(enumeration) :
                 /\ \A j \in 1..Len(enumeration) : cost(i) <= cost(j)
                 /\ \A j \in 1..(i - 1) : cost(j) > cost(i)
    IN  Eval(i).mincost_dict

(***************************************************************************)
(* The phases of an Auction instance.  The handlers run nested inside the  *)
(* constructor; the bid handler may run between any two of them.           *)
(***************************************************************************)
Running == pc \in {"auction", "ppsi"}

RoundLedger == bids[auction.auction_round]

\* announce of every mechanism: OSI announces the first task, PSI, PPSI,
\* SSI, SUM and MAX the bundle, RR and MAN nothing
announce ==
    /\ Running
    /\ auction.fsm = "announce"
    /\ announced' =
          IF auction.mechanism_name = "OSI"
          THEN [mechanism |-> "OSI", tasks |-> <<auction.tasks[1]>>]
          ELSE IF auction.mechanism_name \in {"PSI", "PPSI", "SSI", "SUM", "MAX"}
          THEN [mechanism |-> auction.mechanism_name, tasks |-> auction.tasks]
          ELSE announced
    /\ IF CanFire(auction, "announced")
       THEN auction' = Fire(auction, "announced") /\ pc' = pc
       ELSE auction' = auction /\ pc' = "crashed"
    /\ UNCHANGED <<mechanism, configVars, threadVars, items, taskVars, awarded, auction_round,
                   bids, ppsi_task_winners, team_cycle, agenda_cleared,
                   new_item_added, award_pub, won>>

\* 2 ** n
RECURSIVE Pow2(_)
Pow2(n) == IF n = 0 THEN 1 ELSE 2 * Pow2(n - 1)

\* the number of bids the counting loops of collect_bids wait for
ExpectedCount(a) ==
    IF a.mechanism_name \in {"PSI", "PPSI"} THEN Len(a.tasks) * Len(team_members)
    ELSE IF a.mechanism_name \in {"SUM", "MAX"}
    THEN (Pow2(Len(a.tasks)) - 1) * Len(team_members)
    ELSE 0

\* the polling loop of collect_bids ending on the first bid of the ledger
BidsCollected_first_bid(a, ledger) == ledger # {}

\* the condition on which the polling loop of collect_bids ends
BidsCollected(a, ledger) ==
    IF a.mechanism_name \in {"OSI", "SSI"}
    THEN Cardinality(BidderIds(ledger)) >= Len(team_members)
    ELSE BidCount(ledger) >= ExpectedCount(a)

\* collect_bids of every mechanism; OSI passes on the id of the first task
collect_bids ==
    /\ Running
    /\ auction.fsm = "collect_bids"
    /\ BidsCollected(auction, RoundLedger)
    /\ IF CanFire(auction, "bids_collected")
       THEN /\ auction' = [Fire(auction, "bids_collected") EXCEPT
                             !.task_id = IF auction.mechanism_name = "OSI"
                                         THEN auction.tasks[1] ELSE @]
            /\ pc' = pc
       ELSE auction' = auction /\ pc' = "crashed"
    /\ UNCHANGED <<mechanism, configVars, threadVars, items, taskVars, awarded, auction_round,
                   bids, ppsi_task_winners, team_cycle, agenda_cleared,
                   new_item_added, pubVars>>

\* awarded[task_id].extend(winner_ids)
ExtendAwarded(aw, t, winner_ids) == [aw EXCEPT ![t] = @ \o winner_ids]

\* AuctionOSI.determine_winner
determine_winner_OSI(order) ==
    LET t == auction.task_id
        winner_ids == LowestBidders(RoundLedger, order, t)
    IN  IF OSIKeyError(RoundLedger, t) \/ ~CanFire(auction, "winner_determined")
        THEN /\ pc' = "crashed"
             /\ UNCHANGED <<awarded, auction, ppsi_task_winners>>
        ELSE /\ awarded' = ExtendAwarded(awarded, t, winner_ids)
             /\ auction' = [Fire(auction, "winner_determined") EXCEPT
                              !.winner_ids = winner_ids]
             /\ UNCHANGED <<pc, ppsi_task_winners>>

\* AuctionPSI.determine_winner
determine_winner_PSI(order) ==
    LET task_winners == PSITaskWinners(RoundLedger, order, auction.tasks)
    IN  IF ~CanFire(auction, "winner_determined")
        THEN /\ pc' = "crashed"
             /\ UNCHANGED <<awarded, auction, ppsi_task_winners>>
        ELSE /\ awarded' = [t \in Tasks |->
                               IF t \in Range(auction.tasks)
                               THEN awarded[t] \o task_winners[t] ELSE awarded[t]]
             /\ auction' = [Fire(auction, "winner_determined") EXCEPT
                              !.task_winners = task_winners]
             /\ UNCHANGED <<pc, ppsi_task_winners>>

\* determine_winner of PPSI recording its winners in Auctioneer.awarded, as
\* PSI does
determine_winner_PPSI_recording(order) ==
    LET task_winners == PSITaskWinners(RoundLedger, order, auction.tasks)
    IN  /\ ppsi_task_winners' = [assigned |-> TRUE, task_winners |-> task_winners]
        /\ auction' = [auction EXCEPT !.task_winners = task_winners]
        /\ pc' = "selected"
        /\ awarded' = [t \in Tasks |->
                          IF t \in Range(auction.tasks)
                          THEN awarded[t] \o task_winners[t] ELSE awarded[t]]

\* AuctionPPSI.determine_winner: hands task_winners to the Auctioneer and
\* fires no event
determine_winner_PPSI(order) ==
    LET task_winners == PSITaskWinners(RoundLedger, order, auction.tasks)
    IN  /\ ppsi_task_winners' = [assigned |-> TRUE, task_winners |-> task_winners]
        /\ auction' = [auction EXCEPT !.task_winners = task_winners]
        /\ pc' = "selected"
        /\ UNCHANGED awarded

\* AuctionSSI.determine_winner: bid_tuples[0] of an empty list raises
determine_winner_SSI ==
    IF SSIBidTuples(RoundLedger) = {} \/ ~CanFire(auction, "winner_determined")
    THEN /\ pc' = "crashed"
         /\ UNCHANGED <<awarded, auction, ppsi_task_winners>>
    ELSE \E b \in SSILowest(RoundLedger) :
            /\ awarded' = ExtendAwarded(awarded, b.task_ids[1], <<b.robot>>)
            /\ auction' = [Fire(auction, "winner_determined") EXCEPT
                             !.task_id = b.task_ids[1], !.winner_ids = <<b.robot>>]
            /\ UNCHANGED <<pc, ppsi_task_winners>>

\* AuctionRR.determine_winner and AuctionMAN.determine_winner
determine_winner_skip ==
    /\ IF CanFire(auction, "winner_determined")
       THEN auction' = Fire(auction, "winner_determined") /\ pc' = pc
       ELSE auction' = auction /\ pc' = "crashed"
    /\ UNCHANGED <<awarded, ppsi_task_winners>>

\* AuctionSUM.determine_winner and AuctionMAX.determine_winner
determine_winner_combinatorial(order, enumeration) ==
    IF ~CanFire(auction, "winner_determined")
    THEN /\ pc' = "crashed"
         /\ UNCHANGED <<awarded, auction, ppsi_task_winners>>
    ELSE /\ auction' = [Fire(auction, "winner_determined") EXCEPT
                          !.min_cost_partition =
                              MinCostPartition(auction.mechanism_name, RoundLedger,
                                               order, enumeration)]
         /\ UNCHANGED <<pc, awarded, ppsi_task_winners>>

determine_winner ==
    /\ Running
    /\ auction.fsm = "determine_winner"
    /\ LET name == auction.mechanism_name IN
       \E order \in Perms(BidderIds(RoundLedger)) :
          IF name = "OSI" THEN determine_winner_OSI(order)
          ELSE IF name = "PSI" THEN determine_winner_PSI(order)
          ELSE IF name = "PPSI" THEN determine_winner_PPSI(order)
          ELSE IF name = "SSI" THEN determine_winner_SSI
          ELSE IF name \in {"SUM", "MAX"}
          THEN IF order = <<>>
               THEN /\ pc' = "crashed"       \* min_bid and min_robot_id stay None
                    /\ UNCHANGED <<awarded, auction, ppsi_task_winners>>
               ELSE \E enumeration \in PartitionLists(auction.tasks) :
                       determine_winner_combinatorial(order, enumeration)
          ELSE determine_winner_skip
    /\ UNCHANGED <<mechanism, configVars, threadVars, items, taskVars, auction_round, bids,
                   team_cycle, agenda_cleared, new_item_added, pubVars>>

(***************************************************************************)
(* The Award phase.                                                        *)
(***************************************************************************)
AwardMsg(r, tt) == [robot_id |-> r, tasks |-> tt]

\* one award message per winner of one task
AwardMsgs(winner_ids, t) == [i \in 1..Len(winner_ids) |-> AwardMsg(winner_ids[i], <<t>>)]

\* the flag after k increments of num_robots_allocated, each followed by
\* the test num_robots_allocated == num_robots
AwardedAfter(t, k) ==
    item_awarded[t] \/ \E i \in 1..k : num_robots_allocated[t] + i = num_robots[t]

\* award of OSI and SSI counting the winners on every task of the bundle
award_single_whole_bundle ==
    LET t == auction.task_id
        k == Len(auction.winner_ids)
    IN  /\ award_pub' = AwardMsgs(auction.winner_ids, t)
        /\ num_robots_allocated' =
              [u \in Tasks |-> IF u \in Range(auction.tasks) \cup {t}
                               THEN num_robots_allocated[u] + k
                               ELSE num_robots_allocated[u]]
        /\ item_awarded' = [item_awarded EXCEPT
                              ![t] = @ \/ (num_robots_allocated[t] + k = num_robots[t])]
        /\ UNCHANGED <<awarded, team_cycle>>
        /\ pc' = "loop"

\* AuctionOSI.award and AuctionSSI.award: the flag is tested once, after the
\* loop over the winners
award_single ==
    LET t == auction.task_id
        k == Len(auction.winner_ids)
    IN  /\ award_pub' = AwardMsgs(auction.winner_ids, t)
        /\ num_robots_allocated' = [num_robots_allocated EXCEPT ![t] = @ + k]
        /\ item_awarded' = [item_awarded EXCEPT
                              ![t] = @ \/ (num_robots_allocated[t] + k = num_robots[t])]
        /\ UNCHANGED <<awarded, team_cycle>>
        /\ pc' = "loop"

RECURSIVE PSIAwardMsgs(_, _)
PSIAwardMsgs(tasks, task_winners) ==
    IF tasks = <<>> THEN <<>>
    ELSE AwardMsgs(task_winners[Head(tasks)], Head(tasks))
         \o PSIAwardMsgs(Tail(tasks), task_winners)

\* AuctionPSI.award
award_PSI ==
    /\ award_pub' = PSIAwardMsgs(auction.tasks, auction.task_winners)
    /\ item_awarded' = [t \in Tasks |->
                           IF t \in DOMAIN auction.task_winners THEN TRUE
                           ELSE item_awarded[t]]
    /\ UNCHANGED <<num_robots_allocated, awarded, team_cycle>>
    /\ pc' = "loop"

\* the team member at position i of the cycle
CycleMember(i) == team_members[((i - 1) % Len(team_members)) + 1]

RECURSIVE RRAwardMsgs(_, _)
RRAwardMsgs(tasks, cyc) ==
    IF tasks = <<>> THEN <<>>
    ELSE LET t == Head(tasks)
             k == num_robots[t] - num_robots_allocated[t]
         IN  [i \in 1..k |-> AwardMsg(CycleMember(cyc + i - 1), <<t>>)]
             \o RRAwardMsgs(Tail(tasks), cyc + k)

\* AuctionRR.award: each task of the bundle is awarded to the next members
\* of the cycle until its flag is set; the loop of a task whose count is
\* already at or beyond num_robots never ends
award_RR ==
    IF \E t \in Range(auction.tasks) : num_robots_allocated[t] >= num_robots[t]
    THEN /\ pc' = "diverged"
         /\ UNCHANGED <<award_pub, num_robots_allocated, item_awarded, awarded,
                        team_cycle>>
    ELSE LET msgs == RRAwardMsgs(auction.tasks, team_cycle)
         IN  /\ award_pub' = msgs
             /\ num_robots_allocated' =
                   [t \in Tasks |-> IF t \in Range(auction.tasks)
                                    THEN num_robots[t] ELSE num_robots_allocated[t]]
             /\ item_awarded' = [t \in Tasks |->
                                    item_awarded[t] \/ t \in Range(auction.tasks)]
             /\ team_cycle' = ((team_cycle - 1 + Len(msgs)) % Len(team_members)) + 1
             /\ UNCHANGED awarded
             /\ pc' = "loop"

RECURSIVE SetToSeq(_)
SetToSeq(S) ==
    IF S = {} THEN <<>>
    ELSE LET x == CHOOSE x \in S : TRUE IN <<x>> \o SetToSeq(S \ {x})

\* award of SUM and MAX counting the first task of each subset only
award_combinatorial_first_task ==
    LET mcp == auction.min_cost_partition
        entries == SetToSeq(mcp)
        k(t) == Cardinality({e \in mcp : t = e.task_ids[1]})
    IN  /\ award_pub' = [i \in 1..Len(entries) |->
                            AwardMsg(entries[i].robot, entries[i].task_ids)]
        /\ num_robots_allocated' = [t \in Tasks |-> num_robots_allocated[t] + k(t)]
        /\ item_awarded' = [t \in Tasks |-> AwardedAfter(t, k(t))]
        /\ UNCHANGED <<awarded, team_cycle>>
        /\ pc' = "loop"

\* AuctionSUM.award and AuctionMAX.award: one message per subset of the
\* partition, one increment per task of the subset
award_combinatorial ==
    LET mcp == auction.min_cost_partition
        entries == SetToSeq(mcp)
        k(t) == Cardinality({e \in mcp : t \in Range(e.task_ids)})
    IN  /\ award_pub' = [i \in 1..Len(entries) |->
                            AwardMsg(entries[i].robot, entries[i].task_ids)]
        /\ num_robots_allocated' = [t \in Tasks |-> num_robots_allocated[t] + k(t)]
        /\ item_awarded' = [t \in Tasks |-> AwardedAfter(t, k(t))]
        /\ UNCHANGED <<awarded, team_cycle>>
        /\ pc' = "loop"

\* awarded[task_id].extend(winner_id) for every winner of a list in turn:
\* extend with a string appends its characters
RECURSIVE ExtendWithIds(_, _)
ExtendWithIds(list, winner_ids) ==
    IF winner_ids = <<>> THEN list
    ELSE ExtendWithIds(list \o IdChars(Head(winner_ids)), Tail(winner_ids))

\* AuctionMAN.award
award_MAN ==
    LET tw == auction.task_winners
        k(t) == IF t \in DOMAIN tw THEN Len(tw[t]) ELSE 0
    IN  /\ award_pub' = PSIAwardMsgs(SetToSeq(DOMAIN tw), tw)
        /\ num_robots_allocated' = [t \in Tasks |-> num_robots_allocated[t] + k(t)]
        /\ awarded' = [t \in Tasks |->
                          IF t \in DOMAIN tw THEN ExtendWithIds(awarded[t], tw[t])
                          ELSE awarded[t]]
        /\ item_awarded' = [t \in Tasks |-> AwardedAfter(t, k(t))]
        /\ UNCHANGED team_cycle
        /\ pc' = "loop"

\* the robots of the award messages that carry task t, in publication order
RobotsAwarded(msgs, t) ==
    LET carrying == SelectSeq(msgs, LAMBDA m : t \in Range(m.tasks))
    IN  [i \in 1..Len(carrying) |-> carrying[i].robot_id]

\* the award handler of the running instance; when it returns, the
\* constructor returns and the loop stores the mechanism it ran
award ==
    /\ pc = "auction"
    /\ auction.fsm = "award"
    /\ LET name == auction.mechanism_name IN
          IF name \in {"OSI", "SSI"} THEN award_single
          ELSE IF name = "PSI" THEN award_PSI
          ELSE IF name = "RR" THEN award_RR
          ELSE IF name = "MAN" THEN award_MAN
          ELSE award_combinatorial
    /\ mechanism' = IF pc' = "loop" THEN auction.mechanism_name ELSE mechanism
    /\ bids' = ClosedLedgers
    /\ won' = IF pc' = "loop"
              THEN [t \in Tasks |-> won[t] \o RobotsAwarded(award_pub', t)]
              ELSE won
    /\ UNCHANGED <<auction, configVars, threadVars, items, num_robots, item_completed, auction_round,
                   ppsi_task_winners, agenda_cleared, new_item_added,
                   announced>>

(***************************************************************************)
(* The specification.                                                      *)
(***************************************************************************)
Next ==
    \/ add_scripted_item
    \/ \E r \in Robots : on_task_status_agenda_cleared(r)
    \/ \E t \in Tasks : on_task_status_success(t)
    \/ \E r \in Robots, tt \in BidKeys(announced), c \in ScenarioCosts : on_bid_received(r, tt, c)
    \/ idle
    \/ choose_mechanism_begin
    \/ loop_iteration
    \/ \E predicted \in ClassifierOutputs : select_mechanism_dynamic_end(predicted)
    \/ announce
    \/ collect_bids
    \/ determine_winner
    \/ award
    \/ allocation_complete
    \/ monitor_execution
    \/ end_execution

Spec == Init /\ [][Next]_vars

(***************************************************************************)
(* The ledgers of all rounds: the allocation loop of the single-item       *)
(* auctions with Auctioneer.bids carried whole, closed rounds included.    *)
(***************************************************************************)
InitLedger ==
    /\ Setup
    /\ closed_kept = TRUE
    /\ mechanism \in {"OSI", "PSI"}
    /\ ~reallocate

\* The bid values of the carried ledgers: the least and the greatest bid, which
\* is enough to tell a stored bid from the one that overwrites it.
LedgerCosts == {1, MaxCost}

NextLedger ==
    \/ add_scripted_item
    \/ \E r \in Robots, tt \in BidKeys(announced), c \in LedgerCosts : on_bid_received(r, tt, c)
    \/ idle
    \/ choose_mechanism_begin
    \/ loop_iteration
    \/ announce
    \/ collect_bids
    \/ determine_winner
    \/ award

SpecLedger == InitLedger /\ [][NextLedger]_vars

(***************************************************************************)
(* Winner determination of the combinatorial auctions as a function of the *)
(* ledger: a SUM or MAX instance over the bundle [A, B] has collected a bid *)
(* of every robot on every subset and determines its winners.              *)
(***************************************************************************)
Bundle == <<"A", "B">>

\* the values bid on one task and on the whole bundle
SingletonCosts == {2, 5, 9}
BundleCosts == {8, 20}

\* the ledger holding bid f[r, tt] of every robot r on every subset tt
FullLedger(f) == {Entry(k[1], k[2], f[k]) : k \in DOMAIN f}

\* the values bid by robots that bid on single tasks only
SingleTaskCosts == {1, 10}

\* the ledger holding bid g[r, t] of every robot r on every single task t
\* and no bid on the whole bundle
SingleTaskLedger(g) == {Entry(k[1], <<k[2]>>, g[k]) : k \in DOMAIN g}

\* the values bid on single tasks by robots whose bids all differ
DistinctCosts == {1, 2, 3, 5}

\* no two entries of the ledger carry the same bid
PairwiseDistinct(ledger) == \A b1, b2 \in ledger : b1 # b2 => b1.bid # b2.bid

InitCombinatorial ==
    /\ mechanism \in {"SUM", "MAX"}
    /\ reallocate = FALSE
    /\ classifier = FALSE
    /\ scripted_items = Bundle
    /\ closed_kept = FALSE
    /\ items = Bundle
    /\ num_robots = [t \in Tasks |-> 1]
    /\ num_robots_allocated = [t \in Tasks |-> 0]
    /\ item_awarded = [t \in Tasks |-> FALSE]
    /\ item_completed = [t \in Tasks |-> FALSE]
    /\ awarded = [t \in Tasks |-> <<>>]
    /\ auction_round = 1
    /\ \/ \E f \in [Robots \X NonEmptySubTuples(Bundle) -> SingletonCosts \cup BundleCosts] :
             /\ \A k \in DOMAIN f :
                   f[k] \in IF Len(k[2]) = 1 THEN SingletonCosts ELSE BundleCosts
             /\ bids = <<FullLedger(f)>>
       \/ \E g \in [Robots \X Range(Bundle) -> SingleTaskCosts] :
             bids = <<SingleTaskLedger(g)>>
       \/ \E f \in [Robots \X NonEmptySubTuples(Bundle) -> DistinctCosts \cup BundleCosts] :
             /\ \A k \in DOMAIN f :
                   f[k] \in IF Len(k[2]) = 1 THEN DistinctCosts ELSE BundleCosts
             /\ PairwiseDistinct(FullLedger(f))
             /\ Cardinality(FullLedger(f)) = Cardinality(DOMAIN f)
             /\ bids = <<FullLedger(f)>>
    /\ ppsi_task_winners = NoWinners
    /\ team_cycle = 1
    /\ agenda_cleared = {}
    /\ new_item_added = TRUE
    /\ announced = [mechanism |-> mechanism, tasks |-> Bundle]
    /\ award_pub = <<>>
    /\ won = [t \in Tasks |-> <<>>]
    /\ auction = Fire(Fire(NewAuction(mechanism, Bundle, 1), "announced"), "bids_collected")
    /\ pc = "auction"
    /\ bids_lock = "free"
    /\ handler = NoMessage
    /\ poll = NoPoll

NextCombinatorial == determine_winner

SpecCombinatorial == InitCombinatorial /\ [][NextCombinatorial]_vars

(***************************************************************************)
(* The PPSI run of select_mechanism_dynamic: the first round of a SEL      *)
(* configuration with a classifier and three unallocated items, from the   *)
(* construction of the AuctionPPSI instance to the return of its           *)
(* constructor.                                                            *)
(***************************************************************************)
Probe == <<"A", "B", "C">>

InitPPSI ==
    /\ mechanism = "SEL"
    /\ reallocate = FALSE
    /\ classifier = TRUE
    /\ scripted_items = Probe
    /\ closed_kept = FALSE
    /\ items = Probe
    /\ num_robots \in [Tasks -> Needs]
    /\ num_robots_allocated = [t \in Tasks |-> 0]
    /\ item_awarded = [t \in Tasks |-> FALSE]
    /\ item_completed = [t \in Tasks |-> FALSE]
    /\ awarded = [t \in Tasks |-> <<>>]
    /\ auction_round = 1
    /\ bids = <<NoLedger>>
    /\ ppsi_task_winners = NoWinners
    /\ team_cycle = 1
    /\ agenda_cleared = {}
    /\ new_item_added = TRUE
    /\ announced = NoAnnouncement
    /\ award_pub = <<>>
    /\ won = [t \in Tasks |-> <<>>]
    /\ auction = NewAuction("PPSI", Probe, 1)
    /\ pc = "ppsi"
    /\ bids_lock = "free"
    /\ handler = NoMessage
    /\ poll = NoPoll

NextPPSI ==
    \/ announce
    \/ \E r \in Robots, tt \in BidKeys(announced), c \in Costs : on_bid_received(r, tt, c)
    \/ collect_bids
    \/ determine_winner

SpecPPSI == InitPPSI /\ [][NextPPSI]_vars

(***************************************************************************)
(* The bid handler and the polling loop of collect_bids statement by       *)
(* statement: the handler runs on the subscriber's thread, collect_bids on *)
(* the allocation thread.  An instance over [A, B] has announced round 1   *)
(* and polls the ledger while bids arrive.  (In the specifications above   *)
(* one run of the handler and one poll are one step each.)                 *)
(***************************************************************************)
\* the keys of a ledger
LedgerKeys(ledger) == {<<b.robot, b.task_ids>> : b \in ledger}

\* The robots with an entry in the round's ledger: round_bids[robot_id]
\* inserts the entry of a new bidder (the default '', then {}) before the
\* bid is stored in it.
VisibleBidders ==
    BidderIds(RoundLedger) \cup (IF handler.pc = "entered" THEN {handler.robot} ELSE {})

\* on_bid_received: the message is read and bids_lock acquired
on_bid_received_acquire(r, tt, c) ==
    /\ BidWindow
    /\ auction_round >= 1
    /\ tt \in BidKeys(announced)
    /\ handler.pc = "idle"
    /\ bids_lock = "free"
    /\ bids_lock' = "handler"
    /\ handler' = [pc |-> "locked", robot |-> r, task_ids |-> tt, bid |-> c]
    /\ UNCHANGED <<mechanism, configVars, items, taskVars, awarded, auction_round,
                   bids, ppsi_task_winners, team_cycle, agenda_cleared,
                   new_item_added, pubVars, auction, pc, poll>>

\* on_bid_received: if not round_bids[robot_id]: round_bids[robot_id] = {}
on_bid_received_enter ==
    /\ handler.pc = "locked"
    /\ handler' = [handler EXCEPT !.pc = "entered"]
    /\ UNCHANGED <<mechanism, configVars, items, taskVars, awarded, auction_round,
                   bids, ppsi_task_winners, team_cycle, agenda_cleared,
                   new_item_added, pubVars, auction, pc, bids_lock, poll>>

\* on_bid_received: round_bids[robot_id][tuple(task_ids)] = float(bid)
on_bid_received_store ==
    /\ handler.pc = "entered"
    /\ bids' = [bids EXCEPT ![auction_round] =
                   RecordBid(@, handler.robot, handler.task_ids, handler.bid)]
    /\ handler' = [handler EXCEPT !.pc = "stored"]
    /\ UNCHANGED <<mechanism, configVars, items, taskVars, awarded, auction_round,
                   ppsi_task_winners, team_cycle, agenda_cleared,
                   new_item_added, pubVars, auction, pc, bids_lock, poll>>

\* on_bid_received: bids_lock is released
on_bid_received_release ==
    /\ handler.pc = "stored"
    /\ bids_lock = "handler"
    /\ bids_lock' = "free"
    /\ handler' = NoMessage
    /\ UNCHANGED <<mechanism, configVars, items, taskVars, awarded, auction_round,
                   bids, ppsi_task_winners, team_cycle, agenda_cleared,
                   new_item_added, pubVars, auction, pc, poll>>

(***************************************************************************)
\* collect_bids of OSI and SSI: len(bids) is read without bids_lock
collect_bids_len ==
    /\ Running
    /\ auction.fsm = "collect_bids"
    /\ auction.mechanism_name \in {"OSI", "SSI"}
    /\ Cardinality(VisibleBidders) >= Len(team_members)
    /\ auction' = [Fire(auction, "bids_collected") EXCEPT
                     !.task_id = IF auction.mechanism_name = "OSI"
                                 THEN auction.tasks[1] ELSE @]
    /\ UNCHANGED <<mechanism, configVars, threadVars, items, taskVars, awarded,
                   auction_round, bids, ppsi_task_winners, team_cycle,
                   agenda_cleared, new_item_added, pubVars, pc>>

\* collect_bids of PSI, PPSI, SUM and MAX: the counting loops over the
\* ledger begin; SUM and MAX acquire bids_lock first, PSI and PPSI do not
collect_bids_count_begin ==
    /\ Running
    /\ auction.fsm = "collect_bids"
    /\ auction.mechanism_name \in {"PSI", "PPSI", "SUM", "MAX"}
    /\ poll.pc = "idle"
    /\ IF auction.mechanism_name \in {"SUM", "MAX"}
       THEN bids_lock = "free" /\ bids_lock' = "collector"
       ELSE bids_lock' = bids_lock
    /\ poll' = [pc |-> "counting", bidders |-> VisibleBidders,
                keys |-> LedgerKeys(RoundLedger)]
    /\ UNCHANGED <<mechanism, configVars, items, taskVars, awarded, auction_round,
                   bids, ppsi_task_winners, team_cycle, agenda_cleared,
                   new_item_added, pubVars, auction, pc, handler>>

\* The counting loops end.  A dictionary that has grown under the loop that
\* iterates it raises RuntimeError: the dictionary of the round when a
\* bidder has been entered, the dictionary of a bidder (if the loop was in
\* it) when a key has been added.  Otherwise the count lies between the
\* counts of the ledger at the beginning and at the end, and collect_bids
\* fires bids_collected when it has reached the expected count.
collect_bids_count_end ==
    /\ poll.pc = "counting"
    /\ poll' = NoPoll
    /\ bids_lock' = IF bids_lock = "collector" THEN "free" ELSE bids_lock
    /\ LET now == LedgerKeys(RoundLedger)
       IN  \/ /\ (VisibleBidders # poll.bidders \/ now # poll.keys)
              /\ pc' = "crashed"
              /\ auction' = auction
           \/ /\ VisibleBidders = poll.bidders
              /\ \E count \in Cardinality(poll.keys)..Cardinality(now) :
                    IF count >= ExpectedCount(auction)
                    THEN auction' = Fire(auction, "bids_collected") /\ pc' = pc
                    ELSE auction' = auction /\ pc' = pc
    /\ UNCHANGED <<mechanism, configVars, items, taskVars, awarded, auction_round,
                   bids, ppsi_task_winners, team_cycle, agenda_cleared,
                   new_item_added, pubVars, handler>>

\* the announcement of an instance
Announcement(name, tasks) ==
    [mechanism |-> name, tasks |-> IF name = "OSI" THEN <<tasks[1]>> ELSE tasks]

InitConcurrent ==
    /\ mechanism \in {"OSI", "PSI", "SSI", "SUM", "MAX"}
    /\ reallocate = FALSE
    /\ classifier = FALSE
    /\ scripted_items = Bundle
    /\ closed_kept = FALSE
    /\ items = Bundle
    /\ num_robots = [t \in Tasks |-> 1]
    /\ num_robots_allocated = [t \in Tasks |-> 0]
    /\ item_awarded = [t \in Tasks |-> FALSE]
    /\ item_completed = [t \in Tasks |-> FALSE]
    /\ awarded = [t \in Tasks |-> <<>>]
    /\ auction_round = 1
    /\ bids = <<NoLedger>>
    /\ ppsi_task_winners = NoWinners
    /\ team_cycle = 1
    /\ agenda_cleared = {}
    /\ new_item_added = TRUE
    /\ announced = Announcement(mechanism, Bundle)
    /\ award_pub = <<>>
    /\ won = [t \in Tasks |-> <<>>]
    /\ auction = Fire(NewAuction(mechanism, Bundle, 1), "announced")
    /\ pc = "auction"
    /\ bids_lock = "free"
    /\ handler = NoMessage
    /\ poll = NoPoll

NextConcurrent ==
    \/ \E r \in Robots, tt \in BidKeys(announced), c \in ScenarioCosts :
          on_bid_received_acquire(r, tt, c)
    \/ on_bid_received_enter
    \/ on_bid_received_store
    \/ on_bid_received_release
    \/ collect_bids_len
    \/ collect_bids_count_begin
    \/ collect_bids_count_end

SpecConcurrent == InitConcurrent /\ [][NextConcurrent]_vars

(***************************************************************************)
(* Properties of the task registry.                                        *)
(***************************************************************************)
\* a list without a repeated element
NoRepeat(list) == \A i, j \in DOMAIN list : i # j => list[i] # list[j]

\* the positions of the allocation thread inside the while loop of
\* choose_mechanism
InLoop == {"loop", "auction", "ppsi", "selected"}

\* C1: after any rounds, under any mechanism, every task satisfies
\* 0 <= have <= need (have = num_robots_allocated, need = num_robots).
C1_HaveWithinNeed ==
    \A t \in Tasks :
        /\ 0 <= num_robots_allocated[t]
        /\ num_robots_allocated[t] <= num_robots[t]

\* C2: in every reachable state and for every task, awarded is true if and
\* only if have = need.
C2_AwardedIffFull ==
    \A t \in Tasks : item_awarded[t] <=> (num_robots_allocated[t] = num_robots[t])

\* C3: the allocation loop terminates, and when it does every task is
\* awarded, for every mechanism and every need: the allocation thread
\* leaves the loop only through the loop's exit, with every item awarded.
C3_LoopEndsAllAwarded ==
    [][(pc \in InLoop /\ pc' \notin InLoop)
          => (pc' = "allocation_done"
              /\ \A i \in 1..Len(items') : item_awarded'[items'[i]])]_vars

\* C4: no bidder id appears more than once in the award list of a task, and
\* a bidder that has won a task never wins the same task again, under
\* every mechanism.
C4_NoRepeatedWinner ==
    \A t \in Tasks : NoRepeat(awarded[t]) /\ NoRepeat(won[t])

\* the lowest bid value of a non-empty ledger
LowestBid(ledger) == CHOOSE v \in {e.bid : e \in ledger} : \A e \in ledger : v <= e.bid

\* C5: every SSI round awards exactly one (task, bidder) pair, never more
\* and never fewer, and the pair carries the minimum cost among all bids
\* submitted in that round.
C5_SSIGlobalMinimum ==
    auction.mechanism_name = "SSI"
        => /\ ~(pc = "crashed" /\ auction.fsm = "determine_winner")
           /\ (pc = "auction" /\ auction.fsm = "award")
                 => /\ Len(auction.winner_ids) = 1
                    /\ HasBid(RoundLedger, auction.winner_ids[1], <<auction.task_id>>)
                    /\ BidValue(RoundLedger, auction.winner_ids[1], <<auction.task_id>>)
                          = LowestBid(RoundLedger)

(***************************************************************************)
(* Properties of the bid ledger.                                           *)
(***************************************************************************)
\* the (task, winner) pairs an instance has determined
Determined(a) ==
    IF a.mechanism_name = "PSI"
    THEN {d \in Tasks \X Robots :
             d[1] \in DOMAIN a.task_winners /\ d[2] \in Range(a.task_winners[d[1]])}
    ELSE {<<a.task_id, w>> : w \in Range(a.winner_ids)}

\* C6: a bid recorded while round N is open is stored only in the ledger of
\* round N: every step leaves the ledgers of the other rounds as they were,
\* a round opens on an empty ledger, CollectBids ends on the count of its
\* own round and DetermineWinner names only bidders of its own round.
C6_RoundScopedLedger ==
    [][/\ \A i \in DOMAIN bids : i # auction_round' => bids'[i] = bids[i]
       /\ (auction_round' # auction_round => bids'[auction_round'] = NoLedger)
       /\ ((auction.fsm = "collect_bids" /\ auction'.fsm = "determine_winner")
              => BidsCollected(auction, bids[auction.auction_round]))
       /\ ((auction.fsm = "determine_winner" /\ auction'.fsm = "award")
              => \A d \in Determined(auction') :
                    HasBid(bids[auction.auction_round], d[2], <<d[1]>>))]_vars

\* round 2 has determined a winner while the ledger of round 1 holds a bid
\* whose key is absent from the ledger of round 2
C6_Witness ==
    /\ closed_kept
    /\ auction_round = 2
    /\ pc = "auction"
    /\ auction.fsm = "award"
    /\ Determined(auction) # {}
    /\ \E e \in bids[1] : ~HasBid(bids[2], e.robot, e.task_ids)

\* the ledger of the round that is open
OpenLedger == IF auction_round >= 1 THEN bids[auction_round] ELSE NoLedger

\* C7: submitting the same bid (same round, bidder, task subset and cost) a
\* second time leaves the ledger as it was after the first submission: the
\* stored cost and the number of entries are unchanged.
C7_ResubmissionIdempotent ==
    \A e \in OpenLedger :
        LET again == RecordBid(OpenLedger, e.robot, e.task_ids, e.bid)
        IN  /\ again = OpenLedger
            /\ BidValue(again, e.robot, e.task_ids) = e.bid
            /\ BidCount(again) = BidCount(OpenLedger)

\* a recorded bid whose bidder may submit it again
C7_Witness ==
    /\ BidWindow
    /\ \E e \in OpenLedger : e.task_ids \in BidKeys(announced)
    /\ BidCount(OpenLedger) >= 2

\* a step of on_bid_received that changes the ledger
HandlerStep ==
    /\ bids' # bids
    /\ auction_round' = auction_round
    /\ Len(bids') = Len(bids)
    /\ pc' = pc

\* C8: recording a bid for a key that already holds one replaces the stored
\* cost and leaves the bid count of the round unchanged; recording a bid
\* for a new key increases the count by exactly one; the other entries
\* stay as they were.
C8_OverwriteOrInsert ==
    [][HandlerStep =>
         \E e \in bids'[auction_round] :
            LET before == bids[auction_round]
                after == bids'[auction_round]
                SameKey(b) == b.robot = e.robot /\ b.task_ids = e.task_ids
            IN  /\ {b \in after : SameKey(b)} = {e}
                /\ {b \in after : ~SameKey(b)} = {b \in before : ~SameKey(b)}
                /\ BidValue(after, e.robot, e.task_ids) = e.bid
                /\ BidCount(after) = IF HasBid(before, e.robot, e.task_ids)
                                      THEN BidCount(before)
                                      ELSE BidCount(before) + 1]_vars

\* a recorded bid that a bid of another value may overwrite, next to another
\* entry
C8_Witness ==
    /\ BidWindow
    /\ \E e \in OpenLedger :
          /\ e.task_ids \in BidKeys(announced)
          /\ \E c \in ScenarioCosts : c # e.bid
    /\ BidCount(OpenLedger) >= 2

(***************************************************************************)
(* Properties of the Auction state machine.                                *)
(***************************************************************************)
PhaseOrder == <<"none", "announce", "collect_bids", "determine_winner", "award">>

EventNames == {ev.name : ev \in AuctionEvents}

\* the result DetermineWinner hands to Award
ResultProduced(a) ==
    IF a.mechanism_name \in {"OSI", "SSI"} THEN a.task_id \in Range(items)
    ELSE IF a.mechanism_name = "PSI" THEN DOMAIN a.task_winners = Range(a.tasks)
    ELSE IF a.mechanism_name \in {"SUM", "MAX"} THEN a.min_cost_partition # {}
    ELSE TRUE

\* C9: an Auction instance moves through Start, Announce, CollectBids,
\* DetermineWinner, Award in this order: the phases entered so far are an
\* initial part of the order (none skipped, none entered twice), Award is
\* entered with the result of DetermineWinner, and no event leaves Award.
C9_PhaseOrder ==
    /\ \E n \in 0..Len(PhaseOrder) : auction.phases = Take(PhaseOrder, n)
    /\ auction.phases # <<>> => auction.fsm = auction.phases[Len(auction.phases)]
    /\ auction.fsm = "award"
          => /\ ResultProduced(auction)
             /\ \A event \in EventNames : ~CanFire(auction, event)

\* an instance that has gone through all its phases
C9_Witness ==
    /\ auction.phases = PhaseOrder
    /\ auction.fsm = "award"
    /\ pc = "loop"

(***************************************************************************)
(* Properties of the combinatorial winner determination.                   *)
(***************************************************************************)
\* the ledger of the example: r1 is robot_1, r2 is robot_2
ExampleLedger ==
    {Entry("robot_1", <<"A">>, 5), Entry("robot_1", <<"B">>, 5),
     Entry("robot_1", <<"A", "B">>, 8),
     Entry("robot_2", <<"A">>, 9), Entry("robot_2", <<"B">>, 2),
     Entry("robot_2", <<"A", "B">>, 20)}

ExampleResult == {Entry("robot_1", <<"A">>, 5), Entry("robot_2", <<"B">>, 2)}

\* the blocks of an evaluated partition
Blocks(mincost_dict) == {Range(e.task_ids) : e \in mincost_dict}

AccumulatedCost(ledger, mincost_dict, r) ==
    SumOfBids({Entry(r, e.task_ids, BidOrMax(ledger, r, e.task_ids))
                  : e \in {d \in mincost_dict : d.robot = r}})

\* the highest accumulated cost of a bidder in a partition
MaxAccumulatedCost(ledger, mincost_dict) ==
    CHOOSE c \in {AccumulatedCost(ledger, mincost_dict, r) : r \in Robots} :
        \A r \in Robots : AccumulatedCost(ledger, mincost_dict, r) <= c

\* C11: MAX DetermineWinner compares the partitions by the maximum, over
\* the bidders, of the bidder's accumulated cost (the sum of its bids on the
\* subsets assigned to it in the partition) and selects a partition for
\* which this maximum is lowest.
C11_MAXMinimizesMaxLoad ==
    [][(auction.mechanism_name = "MAX" /\ auction.fsm = "determine_winner"
          /\ auction'.fsm = "award")
         => LET ledger == bids[auction.auction_round]
                chosen == auction'.min_cost_partition
            IN  \E order \in Perms(BidderIds(ledger)),
                   enumeration \in PartitionLists(auction.tasks) :
                   /\ chosen = MinCostPartition("MAX", ledger, order, enumeration)
                   /\ \A i \in DOMAIN enumeration :
                         MaxAccumulatedCost(ledger, chosen)
                            <= MaxAccumulatedCost(ledger,
                                  EvalPartition(ledger, order, enumeration[i],
                                                [r \in Robots |-> 0]).mincost_dict)]_vars

\* the ledger on which SUM and MAX agree: single-task bids only, r1 is
\* robot_1 and r2 is robot_2
AgreeLedger ==
    {Entry("robot_1", <<"A">>, 1), Entry("robot_1", <<"B">>, 10),
     Entry("robot_2", <<"A">>, 10), Entry("robot_2", <<"B">>, 1)}

AgreeResult == {Entry("robot_1", <<"A">>, 1), Entry("robot_2", <<"B">>, 1)}

\* C12: on bundle {A,B} with single-task bids only, r1: A=1, B=10 and
\* r2: A=10, B=1, SUM DetermineWinner and MAX DetermineWinner select the
\* same allocation: partition [{A},{B}] with A assigned to r1 and B to r2.
C12_SUMAndMAXAgree ==
    [][(auction.mechanism_name \in {"SUM", "MAX"} /\ auction.fsm = "determine_winner"
          /\ bids[auction.auction_round] = AgreeLedger /\ auction' # auction)
         => /\ auction'.fsm = "award"
            /\ auction'.min_cost_partition = AgreeResult
            /\ Blocks(auction'.min_cost_partition) = {{"A"}, {"B"}}]_vars

\* MAX has determined the winners on the ledger of agreement
C12_Witness ==
    /\ auction.mechanism_name = "MAX"
    /\ auction.fsm = "award"
    /\ bids[auction.auction_round] = AgreeLedger
    /\ auction.min_cost_partition = AgreeResult

(***************************************************************************)
(* Properties of the round-robin mechanism.                                *)
(***************************************************************************)
\* the robots of a list of award messages, in publication order
AwardedRobots(msgs) == [i \in 1..Len(msgs) |-> msgs[i].robot_id]

\* C13: RoundRobin assigns successive awards by taking the next member of
\* one fixed cyclic order over the team: no robot of the team (the robot
\* controllers on the network) receives a second award before every other
\* robot has received one since its last.
C13_RRCyclicOrder ==
    auction.mechanism_name = "RR"
        => LET seq == AwardedRobots(award_pub)
           IN  \A i, j \in DOMAIN seq :
                  (i < j /\ seq[i] = seq[j])
                     => \A r \in Robots \ {seq[i]} :
                           \E k \in (i + 1)..(j - 1) : seq[k] = r

(***************************************************************************)
(* Properties of rounds that cannot make progress.                         *)
(***************************************************************************)
\* the bids of a ledger on task t of bidders that are not yet winners of t
EligibleBids(ledger, t) ==
    {b \in ledger : b.task_ids = <<t>> /\ Eligible(b.robot, t)}

\* the tasks for which an instance in determine_winner looks for a winner
TasksScored(a) ==
    IF a.mechanism_name = "OSI" THEN {a.task_id}
    ELSE IF a.mechanism_name \in {"PSI", "SSI"} THEN Range(a.tasks)
    ELSE {}

\* a step of DetermineWinner of OSI, PSI or SSI that finds no eligible bid
\* for one of its tasks
NoEligibleBidStep ==
    /\ pc = "auction"
    /\ auction.mechanism_name \in {"OSI", "PSI", "SSI"}
    /\ auction.fsm = "determine_winner"
    /\ \E t \in TasksScored(auction) : EligibleBids(RoundLedger, t) = {}
    /\ (auction' # auction \/ pc' # pc)

\* a step of Award of OSI, PSI or SSI
AwardStep ==
    /\ pc = "auction"
    /\ auction.mechanism_name \in {"OSI", "PSI", "SSI"}
    /\ auction.fsm = "award"
    /\ pc' = "loop"

\* C14: when DetermineWinner of OSI, PSI or SSI finds no eligible bid for a
\* task, the round ends without a winner and without an error: the
\* instance goes on to Award, and when the round has ended the have count,
\* the awarded flag and the award list of the task are as they were and the
\* task is unallocated.
C14_NoWinnerOutcome ==
    [][(NoEligibleBidStep
          => (/\ pc' = "auction"
              /\ auction'.fsm = "award"
              /\ \A t \in TasksScored(auction) :
                    EligibleBids(RoundLedger, t) = {} => awarded'[t] = awarded[t]))
       /\ (AwardStep
             => (\A t \in Range(auction.tasks) :
                   RobotsAwarded(award_pub', t) = <<>>
                      => (/\ num_robots_allocated'[t] = num_robots_allocated[t]
                          /\ item_awarded'[t] = item_awarded[t]
                          /\ ~item_awarded'[t])))]_vars

\* the keys an instance in determine_winner expects of every bidder
ExpectedKeys(a) ==
    IF a.mechanism_name = "OSI" THEN {<<a.task_id>>}
    ELSE IF a.mechanism_name \in {"PSI", "PPSI", "SSI"}
    THEN {<<a.tasks[i]>> : i \in 1..Len(a.tasks)}
    ELSE IF a.mechanism_name \in {"SUM", "MAX"} THEN NonEmptySubTuples(a.tasks)
    ELSE {}

\* a step of DetermineWinner on a ledger in which a bidder has no bid for
\* an expected key (and, for SSI, that holds an eligible bid)
MissingKeyStep ==
    /\ Running
    /\ auction.fsm = "determine_winner"
    /\ \E r \in BidderIds(RoundLedger), k \in ExpectedKeys(auction) :
          ~HasBid(RoundLedger, r, k)
    /\ auction.mechanism_name = "SSI" => SSIBidTuples(RoundLedger) # {}
    /\ (auction' # auction \/ pc' # pc)

\* the winners an OSI, PSI or PPSI step has determined for task t
WinnersDetermined(t) ==
    IF auction.mechanism_name = "OSI" THEN auction'.winner_ids
    ELSE auction'.task_winners[t]

\* C15: a bidder of the round's ledger without a bid for an expected key
\* is treated as absent for that key: DetermineWinner raises no error and
\* scores the bids of the other bidders for it, in OSI, PSI, PPSI, SSI, SUM
\* and MAX.
C15_MissingBidTolerated ==
    [][MissingKeyStep
         => (/\ pc' # "crashed"
             /\ auction.mechanism_name \in {"OSI", "PSI", "PPSI"}
                   => \A t \in TasksScored(auction) \cup
                              (IF auction.mechanism_name = "PPSI"
                               THEN Range(auction.tasks) ELSE {}) :
                         Len(WinnersDetermined(t))
                            = Min(num_robots[t],
                                  Cardinality(EligibleBids(RoundLedger, t))))]_vars

(***************************************************************************)
(* Properties of the ledger lock.                                          *)
(***************************************************************************)
\* C16: every operation that writes or enumerates the ledger of a round
\* runs while holding bids_lock, so that no enumeration of the ledger
\* overlaps a write: while a counting loop of collect_bids runs, the
\* allocation thread holds the lock and the handler is not inside its
\* critical section.
C16_LedgerUnderLock ==
    poll.pc = "counting" => (bids_lock = "collector" /\ handler.pc = "idle")

\* C17: whenever CollectBids evaluates its completion predicate it sees no
\* partially applied bid: a bidder's entry is visible only together with
\* its bid, so that CollectBids completes only when the bids stored in the
\* ledger satisfy the predicate.
C17_NoPartialBidObserved ==
    [][(auction.fsm = "collect_bids" /\ auction'.fsm = "determine_winner")
         => (/\ VisibleBidders = BidderIds(RoundLedger)
             /\ BidsCollected(auction, RoundLedger))]_vars

(***************************************************************************)
(* Properties of the awards of a round.                                    *)
(***************************************************************************)
\* C18: in every round and for every task, the number of winners selected
\* and awarded for the task is at most need - have as of the start of the
\* round (have changes in the Award phase only).
C18_WinnersWithinRemainingNeed ==
    [][(pc = "auction" /\ auction.fsm = "award" /\ pc' = "loop")
         => \A t \in Tasks :
               Len(RobotsAwarded(award_pub', t))
                  <= num_robots[t] - num_robots_allocated[t]]_vars

(***************************************************************************)
(* Properties of the deferred mechanism.                                   *)
(***************************************************************************)
\* PSI's winner rule on a ledger: the winners of a task are distinct
\* eligible bidders on the task, as many as the task needs or as there
\* are, none of them bidding more than a bidder left out, in ascending
\* order of their bids
PSIRule(tw, ledger, tasks) ==
    /\ DOMAIN tw = Range(tasks)
    /\ \A t \in Range(tasks) :
          LET eligible == EligibleBids(ledger, t)
              w == tw[t]
          IN  /\ NoRepeat(w)
              /\ \A i \in DOMAIN w : \E b \in eligible : b.robot = w[i]
              /\ Len(w) = Min(num_robots[t], Cardinality(eligible))
              /\ \A i \in DOMAIN w : \A b \in eligible :
                    b.robot \notin Range(w)
                       => BidValue(ledger, w[i], <<t>>) <= b.bid
              /\ \A i, j \in DOMAIN w :
                    i < j => BidValue(ledger, w[i], <<t>>) <= BidValue(ledger, w[j], <<t>>)

\* C19: a PPSI run never enters the Award phase and emits no award: every
\* step of the run leaves have, the awarded flag and the award list of
\* every task and the awards published as they were, and the map it hands
\* back (ppsi_task_winners) is what PSI's winner rule yields on the ledger.
C19_PPSIDefersAward ==
    [][(pc = "ppsi" /\ auction.mechanism_name = "PPSI")
         => (/\ auction'.fsm # "award"
             /\ "award" \notin Range(auction'.phases)
             /\ num_robots_allocated' = num_robots_allocated
             /\ item_awarded' = item_awarded
             /\ awarded' = awarded
             /\ award_pub' = award_pub
             /\ won' = won
             /\ pc' \in {"ppsi", "selected"}
             /\ pc' = "selected"
                   => (/\ ppsi_task_winners'.assigned
                       /\ PSIRule(ppsi_task_winners'.task_winners, RoundLedger,
                                  auction.tasks)
                       /\ \E order \in Perms(BidderIds(RoundLedger)) :
                             ppsi_task_winners'.task_winners
                                = PSITaskWinners(RoundLedger, order, auction.tasks)))]_vars

\* a PPSI run has handed back winners chosen among bids of different value
C19_Witness ==
    /\ pc = "selected"
    /\ auction.mechanism_name = "PPSI"
    /\ ppsi_task_winners.assigned
    /\ \E t \in Range(auction.tasks) :
          /\ Len(ppsi_task_winners.task_winners[t]) = 1
          /\ \E b \in RoundLedger : b.task_ids = <<t>> /\ b.bid = 2
          /\ BidValue(RoundLedger, ppsi_task_winners.task_winners[t][1], <<t>>) = 1

(***************************************************************************)
(* Properties of the allocation loop.                                      *)
(***************************************************************************)
\* C20: when the mechanism name obtained for a round is not a recognized
\* name, the allocation loop stops: the iteration that obtains the name
\* leaves the loop without running an auction, and no further round is
\* opened.
C20_UnrecognizedNameHalts ==
    [][(pc = "loop" /\ mechanism \notin (Recognized \cup {"SEL"})
          /\ Unallocated # <<>>)
         => (/\ auction_round >= 1 => auction_round' = auction_round
             /\ auction_round' # auction_round => pc' \notin InLoop)]_vars

(***************************************************************************)
(* The entry of choose_mechanism as an operation on the item registry: the *)
(* round-robin allocation of a registry in which some items are awarded    *)
(* (their count at num_robots, their awards published to robot_1) and some *)
(* of the awarded items are complete.                                      *)
(***************************************************************************)
\* the awards round-robin has published for an awarded item
RRAwards(n) == [i \in 1..n |-> "robot_1"]

InitReentry ==
    /\ mechanism = "RR"
    /\ reallocate \in BOOLEAN
    /\ classifier = FALSE
    /\ scripted_items = Bundle
    /\ closed_kept = FALSE
    /\ items = Bundle
    /\ num_robots \in [Tasks -> Needs]
    /\ num_robots["C"] = 1
    /\ item_awarded \in [Tasks -> BOOLEAN]
    /\ ~item_awarded["C"]
    /\ item_completed \in [Tasks -> BOOLEAN]
    /\ \A t \in Tasks : item_completed[t] => item_awarded[t]
    /\ num_robots_allocated = [t \in Tasks |-> IF item_awarded[t] THEN num_robots[t] ELSE 0]
    /\ awarded = [t \in Tasks |-> <<>>]
    /\ auction_round = 0
    /\ bids = <<>>
    /\ ppsi_task_winners = NoWinners
    /\ team_cycle = 1
    /\ agenda_cleared = {}
    /\ new_item_added = TRUE
    /\ announced = NoAnnouncement
    /\ award_pub = <<>>
    /\ won = [t \in Tasks |-> RRAwards(num_robots_allocated[t])]
    /\ auction = NoAuction
    /\ pc = "choose_mechanism"
    /\ bids_lock = "free"
    /\ handler = NoMessage
    /\ poll = NoPoll

NextReentry ==
    \/ \E r \in Robots : on_task_status_agenda_cleared(r)
    \/ choose_mechanism_begin

SpecReentry == InitReentry /\ [][NextReentry]_vars

(***************************************************************************)
(* Properties of re-allocation.                                            *)
(***************************************************************************)
\* the step of choose_mechanism that ends at the top of its while loop
LoopStart == pc = "choose_mechanism" /\ pc' = "loop"

\* C21: with re-allocation enabled, when the allocation loop starts every
\* item that is not completed has awarded = FALSE and every completed item
\* has the awarded flag it had; with re-allocation disabled no awarded flag
\* has changed.  Nothing else of the registry changes.
C21_ReallocationReset ==
    [][LoopStart
         => (/\ reallocate
                   => \A t \in Range(items) :
                         IF item_completed[t]
                         THEN item_awarded'[t] = item_awarded[t]
                         ELSE ~item_awarded'[t]
             /\ ~reallocate => item_awarded' = item_awarded
             /\ \A t \in Tasks \ Range(items) : item_awarded'[t] = item_awarded[t]
             /\ UNCHANGED <<items, item_completed, num_robots, num_robots_allocated>>)]_vars

\* the loop starts after a reset: an item that was awarded (its count is at
\* num_robots) and is not complete is unawarded again, next to a complete
\* item that is still awarded
C21_Witness ==
    /\ pc = "loop"
    /\ reallocate
    /\ \E t, u \in Range(items) :
          /\ ~item_completed[t]
          /\ num_robots_allocated[t] = num_robots[t]
          /\ ~item_awarded[t]
          /\ item_completed[u]
          /\ item_awarded[u]

(***************************************************************************)
(* Properties of the order of arrival.                                     *)
(***************************************************************************)
\* the (bidder, task subset) pairs of an evaluated partition
Assignment(mincost_dict) == {<<e.robot, e.task_ids>> : e \in mincost_dict}

\* a step of DetermineWinner on a ledger whose bids all differ
DistinctBidsStep ==
    /\ pc = "auction"
    /\ auction.fsm = "determine_winner"
    /\ auction'.fsm = "award"
    /\ PairwiseDistinct(RoundLedger)

\* C22: on a ledger with pairwise distinct costs the winners DetermineWinner
\* chooses in OSI, PSI, SSI, SUM and MAX are a function of the bids stored:
\* they are the same for every order in which the bids have arrived, that
\* is, for every order in which the dictionaries filled by the handler list
\* the bidders (the enumeration of the partitions being the library's).
C22_ArrivalOrderIrrelevant ==
    [][DistinctBidsStep
         => LET name == auction.mechanism_name
                Orders == Perms(BidderIds(RoundLedger))
            IN  /\ name = "OSI"
                      => \A order \in Orders :
                            auction'.winner_ids
                               = LowestBidders(RoundLedger, order, auction.task_id)
                /\ name = "PSI"
                      => \A order \in Orders :
                            auction'.task_winners
                               = PSITaskWinners(RoundLedger, order, auction.tasks)
                /\ name = "SSI"
                      => \A b \in SSILowest(RoundLedger) :
                            /\ auction'.task_id = b.task_ids[1]
                            /\ auction'.winner_ids = <<b.robot>>
                /\ name \in {"SUM", "MAX"}
                      => \E enumeration \in PartitionLists(auction.tasks) :
                            \A order \in Orders :
                               Assignment(MinCostPartition(name, RoundLedger, order,
                                                           enumeration))
                                  = Assignment(auction'.min_cost_partition)]_vars

(***************************************************************************)
(* Progress of a round.  The handlers of an Auction instance run one after *)
(* the other inside its constructor, so each of them is taken once it can  *)
(* be; the members of the team answer every announcement with a bid on     *)
(* every key the mechanism expects.                                        *)
(***************************************************************************)
\* the configurations that run one mechanism, without re-allocation
InitLive ==
    /\ Setup
    /\ closed_kept = FALSE
    /\ mechanism \in {"RR", "OSI", "PSI", "SSI", "SUM", "MAX"}
    /\ ~reallocate

\* the bids of the robot controllers: unit bids
LiveCosts == {1}

\* a member of the team submits a bid the open round does not hold yet
SubmitExpected(r, tt) ==
    /\ auction_round >= 1
    /\ ~HasBid(bids[auction_round], r, tt)
    /\ \E c \in LiveCosts : on_bid_received(r, tt, c)

NextLive ==
    \/ add_scripted_item
    \/ \E r \in Robots, tt \in BidKeys(announced), c \in LiveCosts : on_bid_received(r, tt, c)
    \/ idle
    \/ choose_mechanism_begin
    \/ loop_iteration
    \/ announce
    \/ collect_bids
    \/ determine_winner
    \/ award
    \/ allocation_complete

\* determine_winner can be taken exactly in the states in which an instance
\* is in its determine_winner state, and it leaves them (for award or by an
\* exception): weak fairness of it says that these states are left.
DetermineWinnerTaken == []<>~(Running /\ auction.fsm = "determine_winner")

FairRounds ==
    /\ WF_vars(announce)
    /\ WF_vars(collect_bids)
    /\ DetermineWinnerTaken
    /\ WF_vars(award)
    /\ \A r \in Team, tt \in NonEmptySubTuples(Bundle) : WF_vars(SubmitExpected(r, tt))

SpecLive == InitLive /\ [][NextLive]_vars /\ FairRounds

\* C23: a round of a mechanism other than PPSI that has started reaches
\* the Award phase, provided every team member submits the bids the
\* mechanism expects: no round stays in Announce, CollectBids or
\* DetermineWinner.
C23_RoundReachesAward ==
    (pc = "auction" /\ auction.fsm = "announce")
        ~> (auction.fsm = "award")

(***************************************************************************)
(* Delivery of bids at any moment of the allocation thread: the top of the *)
(* while loop of choose_mechanism statement by statement (the counter is   *)
(* incremented, then the ledger of the round is created), and the bid      *)
(* handler when Auctioneer.bids, a defaultdict(int), has no ledger under   *)
(* the counter.                                                            *)
(***************************************************************************)
\* the keys of the bid messages on the bid topic
DeliveryKeys == {<<t>> : t \in Range(Bundle)}

\* self.bids[self.auction_round] is a ledger
HasLedger == auction_round \in DOMAIN bids

\* on_bid_received when the counter has no ledger: bids_lock is acquired,
\* self.bids[self.auction_round] yields (and stores) the int 0, and
\* round_bids[robot_id] raises TypeError; the handler ends holding the lock
\* and the bid is not stored.  (When the ledger of the round is created
\* the 0 is replaced.)
on_bid_received_no_ledger(r, tt, c) ==
    /\ pc \in {"idle", "choose_mechanism", "loop", "open_round"}
    /\ ~HasLedger
    /\ handler.pc = "idle"
    /\ bids_lock = "free"
    /\ bids_lock' = "handler"
    /\ handler' = [pc |-> "failed", robot |-> r, task_ids |-> tt, bid |-> c]
    /\ UNCHANGED <<mechanism, configVars, items, taskVars, awarded, auction_round,
                   bids, ppsi_task_winners, team_cycle, agenda_cleared,
                   new_item_added, pubVars, auction, pc, poll>>

\* on_bid_received on the ledger of the open round, bids_lock being free
on_bid_received_locked(r, tt, c) ==
    /\ bids_lock = "free"
    /\ on_bid_received(r, tt, c)

\* the while loop finds no unallocated item
loop_exit ==
    /\ Unallocated = <<>>
    /\ loop_iteration

\* self.auction_round += 1
loop_increment_round ==
    /\ pc = "loop"
    /\ Unallocated # <<>>
    /\ auction_round < MaxRound
    /\ auction_round' = auction_round + 1
    /\ pc' = "open_round"
    /\ UNCHANGED <<mechanism, configVars, threadVars, items, taskVars, awarded, bids,
                   ppsi_task_winners, team_cycle, agenda_cleared, new_item_added,
                   pubVars, auction>>

\* self.bids[self.auction_round] = defaultdict(str), and the auction of the
\* configured mechanism is constructed
loop_create_ledger ==
    /\ pc = "open_round"
    /\ mechanism \in Recognized \ {"MAN"}
    /\ bids' = Append(ClosedLedgers, NoLedger)
    /\ auction' = NewAuction(mechanism, Unallocated, auction_round)
    /\ pc' = "auction"
    /\ UNCHANGED <<mechanism, configVars, threadVars, items, taskVars, awarded,
                   auction_round, ppsi_task_winners, team_cycle, agenda_cleared,
                   new_item_added, pubVars>>

InitDelivery ==
    /\ mechanism \in {"OSI", "PSI"}
    /\ reallocate = FALSE
    /\ classifier = FALSE
    /\ scripted_items = Bundle
    /\ closed_kept = TRUE
    /\ items = Bundle
    /\ num_robots \in [Tasks -> Needs]
    /\ num_robots["C"] = 1
    /\ num_robots_allocated = [t \in Tasks |-> 0]
    /\ item_awarded = [t \in Tasks |-> FALSE]
    /\ item_completed = [t \in Tasks |-> FALSE]
    /\ awarded = [t \in Tasks |-> <<>>]
    /\ auction_round = 0
    /\ bids = <<>>
    /\ ppsi_task_winners = NoWinners
    /\ team_cycle = 1
    /\ agenda_cleared = {}
    /\ new_item_added = TRUE
    /\ announced = NoAnnouncement
    /\ award_pub = <<>>
    /\ won = [t \in Tasks |-> <<>>]
    /\ auction = NoAuction
    /\ pc = "idle"
    /\ bids_lock = "free"
    /\ handler = NoMessage
    /\ poll = NoPoll

NextDelivery ==
    \/ \E r \in Robots, tt \in DeliveryKeys, c \in LiveCosts : on_bid_received_no_ledger(r, tt, c)
    \/ \E r \in Robots, tt \in BidKeys(announced), c \in LiveCosts : on_bid_received_locked(r, tt, c)
    \/ idle
    \/ choose_mechanism_begin
    \/ loop_exit
    \/ loop_increment_round
    \/ loop_create_ledger
    \/ announce
    \/ collect_bids
    \/ determine_winner
    \/ award

SpecDelivery == InitDelivery /\ [][NextDelivery]_vars

\* C24: every bid delivered to the bid handler is recorded in the ledger of
\* exactly one round, the round open at delivery: the handler never fails,
\* whether the bid is delivered before the first round is opened, between
\* the increment of the round counter and the creation of the round's
\* ledger, or later; and a run of the handler stores its bid under the
\* counter and leaves the ledgers of the other rounds as they were.
C24_BidRecordedInOpenRound ==
    [][/\ handler'.pc # "failed"
       /\ HandlerStep
             => \E e \in bids'[auction_round] :
                   bids' = [bids EXCEPT ![auction_round] =
                               RecordBid(@, e.robot, e.task_ids, e.bid)]]_vars

(***************************************************************************)
(* The scenario feed: items arrive while the Auctioneer idles, allocates   *)
(* and monitors the execution; the robots complete the items they have     *)
(* been awarded.  The mechanisms are those whose rounds award every item   *)
(* of the bundle, so that the loop ends.                                   *)
(***************************************************************************)
InitFeed ==
    /\ Setup
    /\ closed_kept = FALSE
    /\ mechanism \in {"RR", "PSI"}
    /\ ~reallocate

NextFeed ==
    \/ add_scripted_item
    \/ \E r \in Robots, tt \in BidKeys(announced), c \in LiveCosts : on_bid_received(r, tt, c)
    \/ \E t \in Tasks : item_awarded[t] /\ on_task_status_success(t)
    \/ idle
    \/ choose_mechanism_begin
    \/ loop_iteration
    \/ announce
    \/ collect_bids
    \/ determine_winner
    \/ award
    \/ allocation_complete
    \/ monitor_execution
    \/ end_execution

\* the allocation thread runs, and so do the rounds and the bidders
FairFeed ==
    /\ FairRounds
    /\ WF_vars(idle)
    /\ WF_vars(choose_mechanism_begin)
    /\ WF_vars(loop_iteration)
    /\ WF_vars(allocation_complete)
    /\ WF_vars(monitor_execution)
    /\ WF_vars(end_execution)

SpecFeed == InitFeed /\ [][NextFeed]_vars /\ FairFeed

\* C25: an item supplied by the scenario feed at any time (while the
\* allocation loop runs or right after its last check for unallocated
\* items included) is eventually awarded, the bidders bidding in every
\* round: the Auctioneer does not settle with an item that is never
\* auctioned.
C25_FedItemAwarded ==
    \A t \in Tasks : (t \in Range(items)) ~> item_awarded[t]

(***************************************************************************)
(* Bids on task subsets listed in any order: a SUM or MAX instance over    *)
(* the bundle [A, B] has announced round 1, and the bidders list the task  *)
(* ids of a subset in the order they choose.                               *)
(***************************************************************************)
\* the lists of task ids a bid message may carry for an announcement
ListedKeys(ann) == UNION {Perms(S) : S \in (SUBSET Range(ann.tasks)) \ {{}}}

\* Auctioneer.on_bid_received for a message that lists its task ids in any
\* order: the key is tuple(task_ids)
on_bid_received_listed(r, tt, c) ==
    /\ BidWindow
    /\ auction_round >= 1
    /\ tt \in ListedKeys(announced)
    /\ bids' = [bids EXCEPT ![auction_round] = RecordBid(@, r, tt, c)]
    /\ UNCHANGED <<mechanism, configVars, threadVars, items, taskVars, awarded, auction_round,
                   ppsi_task_winners, team_cycle, agenda_cleared, new_item_added,
                   pubVars, auction, pc>>

InitSubsets ==
    /\ InitConcurrent
    /\ mechanism \in {"SUM", "MAX"}

NextSubsets ==
    \/ \E r \in Robots, tt \in ListedKeys(announced), c \in Costs : on_bid_received_listed(r, tt, c)
    \/ collect_bids
    \/ determine_winner

SpecSubsets == InitSubsets /\ [][NextSubsets]_vars

(***************************************************************************)
(* Properties of the task subset of a bid.                                 *)
(***************************************************************************)
\* recording a bid under the set of its task ids
RecordBidBySet(ledger, r, tt, c) ==
    {b \in ledger : ~(b.robot = r /\ Range(b.task_ids) = Range(tt))} \cup {Entry(r, tt, c)}

\* a ledger with at most one entry per bidder and set of task ids
KeyedBySet(ledger) ==
    \A b1, b2 \in ledger :
        (b1.robot = b2.robot /\ Range(b1.task_ids) = Range(b2.task_ids)) => b1 = b2

\* the ledger with every subset listed in bundle order
InBundleOrder(ledger, tasks) ==
    {Entry(b.robot, BlockTuple(tasks, Range(b.task_ids)), b.bid) : b \in ledger}

\* C26: the task subset of a bid is a set.  A bid that lists the task ids
\* of a subset the bidder has bid on, in whatever order, overwrites that
\* bid; and DetermineWinner of SUM and MAX reads a bidder's bid for a
\* subset whatever order the bidder listed it in: its result is the result
\* on the ledger with every subset listed in bundle order.
C26_SubsetOrderIrrelevant ==
    [][/\ HandlerStep
             => \E e \in bids'[auction_round] :
                   bids'[auction_round]
                      = RecordBidBySet(bids[auction_round], e.robot, e.task_ids, e.bid)
       /\ (/\ auction.mechanism_name \in {"SUM", "MAX"}
           /\ auction.fsm = "determine_winner"
           /\ auction'.fsm = "award"
           /\ KeyedBySet(RoundLedger))
             => \E order \in Perms(BidderIds(RoundLedger)),
                   enumeration \in PartitionLists(auction.tasks) :
                   auction'.min_cost_partition
                      = MinCostPartition(auction.mechanism_name,
                                         InBundleOrder(RoundLedger, auction.tasks),
                                         order, enumeration)]_vars

(***************************************************************************)
(* Properties of the award lists.                                          *)
(***************************************************************************)
\* C27: for every task, have (num_robots_allocated) equals the number of
\* bidder ids in the award list of the task (Auctioneer.awarded), under
\* every mechanism: whenever no round is in progress, every increment of
\* have has been matched by one id added to the list and every id added by
\* one increment.
C27_HaveMatchesAwardList ==
    pc \notin {"auction", "ppsi", "selected"}
        => \A t \in Tasks : num_robots_allocated[t] = Len(awarded[t])

(***************************************************************************)
(* Properties of the allocation of the combinatorial auctions.             *)
(***************************************************************************)
\* a step of a SUM or MAX instance from phase to phase
CombinatorialStep(from, to) ==
    /\ auction.mechanism_name \in {"SUM", "MAX"}
    /\ pc = "auction"
    /\ auction.fsm = from
    /\ IF to = "loop" THEN pc' = "loop" ELSE auction'.fsm = to

\* C28: the allocation DetermineWinner of SUM or MAX chooses consists of
\* non-empty, pairwise disjoint subsets whose union is the bundle, each
\* assigned to one bidder of the round; and the Award phase publishes one
\* award per subset and increments have of every task of the bundle
\* exactly once and of no other task.
C28_AllocationPartitionsBundle ==
    [][/\ CombinatorialStep("determine_winner", "award")
             => LET chosen == auction'.min_cost_partition
                IN  /\ Blocks(chosen) \in SetPartitions(Range(auction.tasks))
                    /\ \A e \in chosen : e.task_ids # <<>> /\ NoRepeat(e.task_ids)
                    /\ \A e1, e2 \in chosen :
                          e1 # e2 => Range(e1.task_ids) \cap Range(e2.task_ids) = {}
                    /\ UNION Blocks(chosen) = Range(auction.tasks)
                    /\ \A e \in chosen : e.robot \in BidderIds(RoundLedger)
       /\ CombinatorialStep("award", "loop")
             => /\ \A t \in Tasks :
                      num_robots_allocated'[t]
                         = num_robots_allocated[t]
                              + (IF t \in Range(auction.tasks) THEN 1 ELSE 0)
                /\ \A t \in Tasks :
                      Len(RobotsAwarded(award_pub', t))
                         = (IF t \in Range(auction.tasks) THEN 1 ELSE 0)
                /\ Len(award_pub') = Cardinality(auction.min_cost_partition)]_vars

\* a SUM or MAX round over two tasks has awarded two subsets, one award each
C28_Witness ==
    /\ auction.mechanism_name \in {"SUM", "MAX"}
    /\ pc = "loop"
    /\ auction.fsm = "award"
    /\ Len(auction.tasks) = 2
    /\ Len(award_pub) = Cardinality(auction.min_cost_partition)
    /\ Cardinality(auction.min_cost_partition) = 2
    /\ \A t \in Range(auction.tasks) : num_robots_allocated[t] >= 1

(***************************************************************************)
(* Properties of the single-item auctions.                                 *)
(***************************************************************************)
\* a step of the DetermineWinner phase of an instance of mechanism name
DetermineWinnerStep(name) ==
    /\ pc = "auction"
    /\ auction.mechanism_name = name
    /\ auction.fsm = "determine_winner"
    /\ (auction' # auction \/ pc' # pc)

\* C29: an OSI round announces only the first task of the unallocated
\* bundle, in the insertion order of the registry, and its winners are
\* exactly the min(need, number of eligible bidders) bidders with the
\* lowest bids for that task, the eligible bidders being those with a bid
\* for the task in the round that are not in the award list of the task: a
\* round with an eligible bidder ends DetermineWinner with such winners.
C29_OSIFirstTaskLowestBidders ==
    [][/\ (pc = "auction" /\ auction.mechanism_name = "OSI"
             /\ auction.fsm = "announce" /\ auction'.fsm = "collect_bids")
             => /\ auction.tasks = Unallocated
                /\ announced'.tasks = <<Unallocated[1]>>
       /\ (DetermineWinnerStep("OSI") /\ auction'.fsm = "award")
             => /\ auction'.task_id = auction.tasks[1]
                /\ PSIRule([t \in {auction.task_id} |-> auction'.winner_ids],
                           RoundLedger, <<auction.task_id>>)
       /\ (DetermineWinnerStep("OSI") /\ EligibleBids(RoundLedger, auction.task_id) # {})
             => /\ auction'.fsm = "award"
                /\ auction'.winner_ids # <<>>]_vars

\* the ledgers that differ from ledger only in bids on tasks other than t:
\* every such bid removed, or one of them stored or replaced
OtherTaskVariants(ledger, t) ==
    {{b \in ledger : b.task_ids = <<t>>}}
       \cup {RecordBid(ledger, x[1], <<x[2]>>, x[3]) :
                x \in Robots \X (Tasks \ {t}) \X Costs}

\* C30: a PSI round determines the winners of each task of the bundle
\* independently of the other tasks, as the need lowest-cost bidders on
\* the singleton bid of that task (all of them when fewer have bid), and
\* its Award phase awards every task of the bundle to exactly the winners
\* determined for it; the winners of a task are the same whatever the bids
\* on the other tasks are.
C30_PSIPerTaskWinners ==
    [][/\ DetermineWinnerStep("PSI")
             => /\ auction'.fsm = "award"
                /\ PSIRule(auction'.task_winners, RoundLedger, auction.tasks)
                /\ \A t \in Range(auction.tasks) :
                      EligibleBids(RoundLedger, t)
                         = {b \in RoundLedger : b.task_ids = <<t>>}
                /\ \A t \in Range(auction.tasks) :
                      \A other \in OtherTaskVariants(RoundLedger, t) :
                         \E order \in Perms(BidderIds(other)) :
                            LowestBidders(other, order, t) = auction'.task_winners[t]
       /\ (pc = "auction" /\ auction.mechanism_name = "PSI"
             /\ auction.fsm = "award" /\ pc' # pc)
             => /\ pc' = "loop"
                /\ \A i \in DOMAIN award_pub' : Len(award_pub'[i].tasks) = 1
                /\ \A t \in Tasks :
                      RobotsAwarded(award_pub', t)
                         = IF t \in Range(auction.tasks)
                           THEN auction.task_winners[t] ELSE <<>>
                /\ \A t \in Range(auction.tasks) : item_awarded'[t]]_vars

\* a PSI round over two tasks has awarded each of them to the winners
\* determined for it, and the winners of the two tasks differ
C30_Witness ==
    /\ pc = "loop"
    /\ auction.mechanism_name = "PSI"
    /\ auction.fsm = "award"
    /\ \E t, u \in Range(auction.tasks) :
          /\ t # u
          /\ auction.task_winners[t] # <<>>
          /\ auction.task_winners[u] # <<>>
          /\ auction.task_winners[t] # auction.task_winners[u]
          /\ RobotsAwarded(award_pub, t) = auction.task_winners[t]
          /\ RobotsAwarded(award_pub, u) = auction.task_winners[u]

(***************************************************************************)
(* Properties of the rounds of the allocation loop.                        *)
(***************************************************************************)
\* C31: each iteration of the allocation loop opens a round whose number
\* is one greater than that of the round before and whose ledger is
\* empty, the bundle of the round is the list of the items with awarded
\* false, in the insertion order of the registry, as they are at the top
\* of the iteration, and the loop is left for the code after it only when
\* every item of the registry has awarded true.  Nothing but an iteration
\* changes the round number.
C31_LoopOpensRounds ==
    [][/\ auction_round' # auction_round => (pc = "loop" /\ pc' # "allocation_done")
       /\ pc' = "allocation_done" /\ pc # "allocation_done"
             => /\ pc = "loop"
                /\ \A t \in Range(items) : item_awarded[t]
                /\ auction_round' = auction_round
                /\ bids' = bids
       /\ (pc = "loop" /\ pc' # "allocation_done" /\ (pc' # pc \/ auction' # auction
                                                          \/ bids' # bids))
             => /\ \E t \in Range(items) : ~item_awarded[t]
                /\ auction_round' = auction_round + 1
                /\ DOMAIN bids' = 1..auction_round'
                /\ bids'[auction_round'] = {}
                /\ pc' \in {"auction", "ppsi"}
                      => /\ auction'.auction_round = auction_round'
                         /\ auction'.fsm = "announce"
                         /\ auction'.tasks
                               = SelectSeq(items, LAMBDA t : ~item_awarded[t])]_vars

\* the second round of a loop has been opened with an empty ledger for the
\* items the first round left without an award, another item being awarded
C31_Witness ==
    /\ pc = "auction"
    /\ auction_round = 2
    /\ auction.auction_round = 2
    /\ auction.fsm = "announce"
    /\ bids[2] = {}
    /\ auction.tasks # <<>>
    /\ auction.tasks = SelectSeq(items, LAMBDA t : ~item_awarded[t])
    /\ \E t \in Range(items) : item_awarded[t]

\* the instance leaves CollectBids for DetermineWinner
HandOver ==
    /\ Running
    /\ auction.fsm = "collect_bids"
    /\ auction'.fsm = "determine_winner"

InstanceStep(name) ==
    /\ pc = "auction"
    /\ auction.mechanism_name = name
    /\ (auction' # auction \/ pc' # pc)

NextReopened ==
    \/ \E r \in Robots : on_task_status_agenda_cleared(r)
    \/ choose_mechanism_begin
    \/ loop_iteration
    \/ announce
    \/ collect_bids
    \/ determine_winner
    \/ award
    \/ allocation_complete

SpecReopened == InitReentry /\ [][NextReopened]_vars

FairReopened ==
    /\ \A r \in Team : WF_vars(on_task_status_agenda_cleared(r))
    /\ WF_vars(choose_mechanism_begin)
    /\ WF_vars(loop_iteration)
    /\ WF_vars(announce)
    /\ WF_vars(collect_bids)
    /\ WF_vars(determine_winner)
    /\ WF_vars(award)
    /\ WF_vars(allocation_complete)

SpecReopenedLive == InitReentry /\ [][NextReopened]_vars /\ FairReopened

OthersUntouched(t) ==
    \A u \in Tasks \ {t} :
       /\ num_robots_allocated'[u] = num_robots_allocated[u]
       /\ item_awarded'[u] = item_awarded[u]
       /\ awarded'[u] = awarded[u]

\* C36: an OSI round changes have, the awarded flag and the award list of
\* the first task of its bundle only, an SSI round those of its single
\* winning task only; the steps of the round change these fields of no
\* other task and the completed flag of no task.
C36_SingleItemFrame ==
    [][/\ InstanceStep("OSI")
             => /\ OthersUntouched(auction.tasks[1])
                /\ item_completed' = item_completed
       /\ InstanceStep("SSI")
             => /\ IF auction.fsm = "determine_winner" /\ auction'.fsm = "award"
                   THEN OthersUntouched(auction'.task_id)
                   ELSE IF auction.fsm = "award"
                   THEN OthersUntouched(auction.task_id)
                   ELSE UNCHANGED <<num_robots_allocated, item_awarded, awarded>>
                /\ item_completed' = item_completed]_vars

\* an OSI round over two tasks or more has awarded its first task and left
\* another task of the bundle without award
C36_Witness ==
    /\ pc = "loop"
    /\ auction.mechanism_name = "OSI"
    /\ auction.fsm = "award"
    /\ Len(auction.tasks) >= 2
    /\ auction.task_id = auction.tasks[1]
    /\ num_robots_allocated[auction.task_id] > 0
    /\ awarded[auction.task_id] # <<>>
    /\ \E u \in Range(auction.tasks) \ {auction.task_id} :
          /\ num_robots_allocated[u] = 0
          /\ ~item_awarded[u]
          /\ awarded[u] = <<>>

(***************************************************************************)
(* Properties of the deferred finalization.                                *)
(***************************************************************************)
\* the loop constructs a MAN instance
MANStarted ==
    /\ auction'.mechanism_name = "MAN"
    /\ auction'.fsm = "announce"
    /\ auction' # auction

C38_AwardsBackedByBids ==
    [][(/\ pc = "auction"
        /\ auction.mechanism_name \in {"OSI", "PSI", "SSI", "SUM", "MAX"}
        /\ auction.fsm = "award"
        /\ pc' # pc)
         => \A i \in DOMAIN award_pub' :
               /\ HasBid(RoundLedger, award_pub'[i].robot_id, award_pub'[i].tasks)
               /\ Range(award_pub'[i].tasks) \subseteq Range(auction.tasks)]_vars

\* C39: when CollectBids completes in an OSI, PSI, SUM or MAX round, every
\* team member has a bid recorded in the ledger of the round under every
\* key the mechanism expects: the announced task for OSI, every task of
\* the bundle for PSI, every non-empty subset of the bundle for SUM and
\* MAX.
C39_CollectedBidsComplete ==
    [][(HandOver /\ auction.mechanism_name \in {"OSI", "PSI", "SUM", "MAX"})
         => \A r \in Team : \A key \in ExpectedKeys(auction') :
               HasBid(RoundLedger, r, key)]_vars

(***************************************************************************)
(* Properties of the top-level machine.                                    *)
(***************************************************************************)
\* C40: every event the Auctioneer fires on its top-level machine is
\* defined from the state the machine is in: no handler of a top-level
\* state ends in an event error, and end_execution, when a scripted item
\* is incomplete, takes the machine back to idle (from where
\* choose_mechanism runs a further allocation loop), and to end_experiment
\* otherwise.
C40_TopLevelEventsDefined ==
    [][/\ pc \in {"idle", "allocation_done", "monitor_execution", "end_execution"}
             => pc' # "crashed"
       /\ (pc = "end_execution" /\ pc' # pc)
             => pc' = IF \E t \in Range(scripted_items) : ~item_completed[t]
                      THEN "idle" ELSE "end_experiment"]_vars

====
